---- MODULE Spec2Model ----
(***************************************************************************)
(* CosyVoiceDesktop: the generation worker (core/worker.py), the segment   *)
(* version model (core/models.py), the main window's model load / unload   *)
(* and generation handlers (ui/main_window.py) and the API server page     *)
(* (ui/api_page.py, core/api.py), as one state machine.                    *)
(*                                                                         *)
(* Threads: the GUI thread (every handler is one atomic action; signals    *)
(* from other threads reach it through guiQueue, in posting order), the    *)
(* AudioGenerationWorker thread (wpc), the ModelLoaderThread /             *)
(* ModelUnloaderThread threads (one per model instance, modelState) and    *)
(* the APIServerThread (srvPc) which serves one HTTP request at a time     *)
(* (reqPc).                                                                *)
(***************************************************************************)
EXTENDS Integers, Sequences, FiniteSets, TLC

\* ---------------------------------------------------------------- bounds
NumSegs == 2      \* segments of the task plan
MaxChunks == 2    \* most chunks one model call yields
MaxRuns == 2      \* most workers start_generation creates
MaxModels == 2    \* most model instances ever constructed
MaxStarts == 2    \* most APIServerThreads start_server_process creates
MaxText == 4      \* longest text of an HTTP request
MaxPrompt == 4    \* longest instruction text, in tokens
MaxPlan == 3      \* most rows the plan editor holds
MaxSaved == 2     \* most rows of a plan taken through save_plan and load_plan
MaxDoc == 4       \* longest document handed to the segmenter, in characters
MaxName == 3      \* longest text of a segment whose chunks are named, but for one
MaxProfiles == 3  \* most profiles of the voice settings page

SegIds == 1..NumSegs
ModelIds == 1..MaxModels
None == 0         \* Python's None, for a model handle

VARIABLES
    segs,            \* TaskSegment objects: SegIds -> fields
    task_segments,   \* TaskPlanInterface.task_segments: the plan, a list of segments
    wpc,             \* where current_worker's thread is ("none": no worker yet)
    w_segments,      \* AudioGenerationWorker.segments
    w_cosyvoice,     \* AudioGenerationWorker.cosyvoice
    w_is_running,    \* AudioGenerationWorker.is_running
    w_i,             \* position of the for loop in w_segments (1-based)
    w_files,         \* segment_files of the segment being generated
    w_all,           \* all_generated_files
    events,          \* signals the current worker has emitted, in order
    runs,            \* workers created so far
    cosyvoice_model, \* CosyVoiceProApp.cosyvoice_model
    modelState,      \* each model instance: absent, loading_main / loading_api /
                     \* loading_worker (who constructs it), loaded, failed,
                     \* unloading, unloaded
    guiQueue,        \* queued signals waiting for the GUI thread (those whose slot
                     \* changes more than labels, logs and success / error InfoBars)
    infoBar,         \* title of the InfoBar.warning shown last
    srvPc,           \* where APIPageInterface.server_thread is
    srv_model,       \* APIServerThread.model
    srv_starts,      \* APIServerThreads created so far
    srv_socket,      \* the server's listening socket is bound
    start_btn,       \* APIPageInterface.start_btn.isEnabled()
    api_cosyvoice,   \* core.api's global cosyvoice
    reqPc,           \* the HTTP request the server thread is handling
    call,            \* the last call of a function or route taken on its own:
                     \* its name and arguments ("none": no call yet)
    ret,             \* what that call returned
    plan_rows,       \* TaskPlanInterface.task_segments as the plan editor sees it:
                     \* the rows with their text, profile, mode, instruction, seed
    plan_file,       \* the plan file save_plan wrote last (NoFile: none yet)
    vs_voice_configs \* VoiceSettingsInterface.voice_configs: the names of the
                     \* profiles of the voice settings page, in list order

vars == <<segs, task_segments, wpc, w_segments, w_cosyvoice, w_is_running, w_i,
          w_files, w_all, events, runs, cosyvoice_model, modelState,
          guiQueue, infoBar, srvPc, srv_model, srv_starts, srv_socket, start_btn,
          api_cosyvoice, reqPc, call, ret, plan_rows, plan_file, vs_voice_configs>>

workerVars == <<wpc, w_segments, w_cosyvoice, w_is_running, w_i, w_files, w_all,
                events, runs>>
apiVars == <<srvPc, srv_model, srv_starts, srv_socket, start_btn, api_cosyvoice,
             reqPc>>
callVars == <<call, ret>>
planVars == <<plan_rows, plan_file, vs_voice_configs>>
appVars == <<segs, task_segments, cosyvoice_model, modelState, guiQueue, infoBar>>
NoCall == [fn |-> "none"]
NoFile == [written |-> FALSE, segments |-> <<>>]

\* str(n) for a number of one digit
Str(n) == <<(<<"0", "1", "2", "3", "4", "5", "6", "7", "8", "9">>)[n + 1]>>

\* voice_settings.py lines 112 and 276: the name f"语音配置{n}" of a new profile,
\* a sequence of tokens ("cfg" stands for the prefix)
default_name(n) == <<"cfg">> \o Str(n)

\* task_plan.py line 34: the plan editor starts with no rows; nothing is saved yet.
\* voice_settings.py lines 103-108: without a config.json the page starts with
\* the one profile add_config makes
PlanInit ==
    /\ plan_rows = <<>>
    /\ plan_file = NoFile
    /\ vs_voice_configs = <<default_name(1)>>

\* ------------------------------------------------------- core/models.py
\* TaskSegment.__init__; promptAudio: voice_config.prompt_audio names a file
TaskSegment(index, promptAudio) ==
    [index |-> index, promptAudio |-> promptAudio, run_count |-> 0,
     versions |-> <<>>, current_version |-> 0, current_segment |-> 0,
     current_audio |-> <<>>]

\* add_version without lines 53-54: the selection stays where it was
add_version_keep_selection(seg, files) ==
    IF files # <<>>
    THEN [seg EXCEPT !.versions = Append(@, files),
                     !.run_count = Len(seg.versions) + 1]
    ELSE seg

\* add_version without line 54: the chunk selected before stays selected
add_version_stale_chunk(seg, files) ==
    IF files # <<>>
    THEN [seg EXCEPT !.versions = Append(@, files),
                     !.run_count = Len(seg.versions) + 1,
                     !.current_version = Len(seg.versions),
                     !.current_audio = files[1]]
    ELSE seg

\* TaskSegment.add_version
add_version(seg, files) ==
    IF files # <<>>
    THEN [seg EXCEPT !.versions = Append(@, files),
                     !.run_count = Len(seg.versions) + 1,
                     !.current_version = Len(seg.versions),
                     !.current_segment = 0,
                     !.current_audio = files[1]]
    ELSE seg

\* TaskSegment.set_audio: the value returned (ok) and the segment afterwards
set_audio(seg, version, segment) ==
    LET ver_idx == version - 1
        seg_idx == segment - 1
    IN IF /\ 0 <= ver_idx /\ ver_idx < Len(seg.versions)
          /\ 0 <= seg_idx /\ seg_idx < Len(seg.versions[ver_idx + 1])
       THEN [ok |-> TRUE,
             seg |-> [seg EXCEPT !.current_version = ver_idx,
                                 !.current_segment = seg_idx,
                                 !.current_audio = seg.versions[ver_idx + 1][seg_idx + 1]]]
       ELSE [ok |-> FALSE, seg |-> seg]

\* ------------------------------------------------------- core/worker.py
\* AudioGenerationWorker.generate_filename: {index}_{version}_{preview}_{sub+1}.wav;
\* the preview is a function of the segment's text, which a run never changes
generate_filename(seg, sub_index, version) ==
    <<seg.index, version, sub_index + 1>>

\* QThread.isRunning() of current_worker
WorkerIsRunning == wpc \notin {"none", "done"}

\* the segment the for loop of run() is at
CurSeg == w_segments[w_i]

Emit(e) == Append(events, e)

\* a signal of the worker: progress(str), segment_finished(int, list),
\* finished(list), error(str)
Ev(sig, msg, index, files) == [sig |-> sig, msg |-> msg, index |-> index, files |-> files]

\* the next model instance to construct, if the bound leaves one
FreshModels == {m \in ModelIds : modelState[m] = "absent"}
FreshModel == CHOOSE m \in FreshModels : \A n \in FreshModels : m <= n

\* ----------------------------------------------------------------- Init
Init ==
    /\ \E f \in [SegIds -> BOOLEAN] : segs = [s \in SegIds |-> TaskSegment(s, f[s])]
    /\ task_segments = [k \in 1..NumSegs |-> k]
    /\ wpc = "none"
    /\ w_segments = <<>>
    /\ w_cosyvoice = None
    /\ w_is_running = FALSE
    /\ w_i = 1
    /\ w_files = <<>>
    /\ w_all = <<>>
    /\ events = <<>>
    /\ runs = 0
    /\ cosyvoice_model = None
    /\ modelState = [m \in ModelIds |-> "absent"]
    /\ guiQueue = <<>>
    /\ infoBar = ""
    /\ srvPc = "none"
    /\ srv_model = None
    /\ srv_starts = 0
    /\ srv_socket = FALSE
    /\ start_btn = TRUE
    /\ api_cosyvoice = None
    /\ reqPc = "idle"
    /\ call = NoCall
    /\ ret = NoCall
    /\ PlanInit

\* ------------------------------------------- AudioGenerationWorker.run()
\* lines 31-36: load a model first when none was handed over
run_begin ==
    /\ wpc = "start"
    /\ IF w_cosyvoice = None
       THEN /\ FreshModels # {}
            /\ modelState' = [modelState EXCEPT ![FreshModel] = "loading_worker"]
            /\ events' = Emit(Ev("progress", "loading", 0, <<>>))
            /\ wpc' = "loading"
       ELSE /\ wpc' = "loop"
            /\ UNCHANGED <<modelState, events>>
    /\ UNCHANGED <<segs, task_segments, w_segments, w_cosyvoice, w_is_running, w_i,
                   w_files, w_all, runs, cosyvoice_model, guiQueue, infoBar>>
    /\ UNCHANGED apiVars
    /\ UNCHANGED callVars
    /\ UNCHANGED planVars

\* line 35 returns: self.cosyvoice = self.load_model()
run_load_model_ok ==
    /\ wpc = "loading"
    /\ \E m \in ModelIds :
        /\ modelState[m] = "loading_worker"
        /\ modelState' = [modelState EXCEPT ![m] = "loaded"]
        /\ w_cosyvoice' = m
    /\ events' = Emit(Ev("progress", "loaded", 0, <<>>))
    /\ wpc' = "loop"
    /\ UNCHANGED <<segs, task_segments, w_segments, w_is_running, w_i, w_files, w_all,
                   runs, cosyvoice_model, guiQueue, infoBar>>
    /\ UNCHANGED apiVars
    /\ UNCHANGED callVars
    /\ UNCHANGED planVars

\* line 35 raises (load_model, lines 108-133): caught at line 105
run_load_model_raise ==
    /\ wpc = "loading"
    /\ \E m \in ModelIds :
        /\ modelState[m] = "loading_worker"
        /\ modelState' = [modelState EXCEPT ![m] = "failed"]
    /\ events' = Emit(Ev("error", "load", 0, <<>>))
    /\ wpc' = "done"
    /\ UNCHANGED <<segs, task_segments, w_segments, w_cosyvoice, w_is_running, w_i,
                   w_files, w_all, runs, cosyvoice_model, guiQueue, infoBar>>
    /\ UNCHANGED apiVars
    /\ UNCHANGED callVars
    /\ UNCHANGED planVars

\* lines 49-79: the next segment has its reference audio; its chunk loop starts
run_next_segment ==
    /\ wpc = "loop"
    /\ w_i <= Len(w_segments)
    /\ w_is_running
    /\ segs[CurSeg].promptAudio
    /\ events' = Emit(Ev("progress", "generating", segs[CurSeg].index, <<>>))
    /\ w_files' = <<>>
    /\ wpc' = "call"
    /\ UNCHANGED <<segs, task_segments, w_segments, w_cosyvoice, w_is_running, w_i,
                   w_all, runs, cosyvoice_model, modelState, guiQueue, infoBar>>
    /\ UNCHANGED apiVars
    /\ UNCHANGED callVars
    /\ UNCHANGED planVars

\* lines 66-68: no reference audio: a progress message, then continue
run_skip_segment ==
    /\ wpc = "loop"
    /\ w_i <= Len(w_segments)
    /\ w_is_running
    /\ ~segs[CurSeg].promptAudio
    /\ events' = events \o <<Ev("progress", "generating", segs[CurSeg].index, <<>>),
                             Ev("progress", "skip", 0, <<>>)>>
    /\ w_i' = w_i + 1
    /\ UNCHANGED <<segs, task_segments, wpc, w_segments, w_cosyvoice, w_is_running,
                   w_files, w_all, runs, cosyvoice_model, modelState,
                   guiQueue, infoBar>>
    /\ UNCHANGED apiVars
    /\ UNCHANGED callVars
    /\ UNCHANGED planVars

\* the end of run() without the test of line 102: finished is always emitted
run_loop_exit_always ==
    /\ wpc = "loop"
    /\ w_i > Len(w_segments) \/ ~w_is_running
    /\ events' = Emit(Ev("finished", "", 0, w_all))
    /\ guiQueue' = Append(guiQueue, <<"gen_finished", 0>>)
    /\ wpc' = "done"
    /\ UNCHANGED <<segs, task_segments, w_segments, w_cosyvoice, w_is_running, w_i,
                   w_files, w_all, runs, cosyvoice_model, modelState, infoBar>>
    /\ UNCHANGED apiVars
    /\ UNCHANGED callVars
    /\ UNCHANGED planVars

\* lines 50-51 (break) or the list is exhausted, then lines 102-103
run_loop_exit ==
    /\ wpc = "loop"
    /\ w_i > Len(w_segments) \/ ~w_is_running
    /\ IF w_is_running
       THEN /\ events' = Emit(Ev("finished", "", 0, w_all))
            /\ guiQueue' = Append(guiQueue, <<"gen_finished", 0>>)
       ELSE UNCHANGED <<events, guiQueue>>
    /\ wpc' = "done"
    /\ UNCHANGED <<segs, task_segments, w_segments, w_cosyvoice, w_is_running, w_i,
                   w_files, w_all, runs, cosyvoice_model, modelState, infoBar>>
    /\ UNCHANGED apiVars
    /\ UNCHANGED callVars
    /\ UNCHANGED planVars

\* line 79: the for statement asks the generator for its next result: the model
\* call (inference_zero_shot / cross_lingual / instruct2) runs on self.cosyvoice
run_request_chunk ==
    /\ wpc = "call"
    /\ wpc' = "infer"
    /\ UNCHANGED <<segs, task_segments, w_segments, w_cosyvoice, w_is_running, w_i,
                   w_files, w_all, events, runs, cosyvoice_model, modelState,
                   guiQueue, infoBar>>
    /\ UNCHANGED apiVars
    /\ UNCHANGED callVars
    /\ UNCHANGED planVars

\* the generator yields a result
run_chunk_yield ==
    /\ wpc = "infer"
    /\ Len(w_files) < MaxChunks
    /\ wpc' = "yielded"
    /\ UNCHANGED <<segs, task_segments, w_segments, w_cosyvoice, w_is_running, w_i,
                   w_files, w_all, events, runs, cosyvoice_model, modelState,
                   guiQueue, infoBar>>
    /\ UNCHANGED apiVars
    /\ UNCHANGED callVars
    /\ UNCHANGED planVars

\* lines 94-100 followed by a loop that steps back to the segment before
SegmentEnd_back(files) ==
    /\ segs' = [segs EXCEPT ![CurSeg] = IF files # <<>> THEN add_version(@, files) ELSE @]
    /\ events' = events
          \o (IF files # <<>>
              THEN <<Ev("progress", "version", Len(segs[CurSeg].versions) + 1, files)>>
              ELSE <<>>)
          \o <<Ev("segment_finished", "", segs[CurSeg].index, files)>>
    /\ w_files' = <<>>
    /\ w_i' = IF w_i > 1 THEN w_i - 1 ELSE w_i + 1
    /\ wpc' = "loop"

\* lines 94-100: the chunk loop of a segment is over
SegmentEnd(files) ==
    /\ segs' = [segs EXCEPT ![CurSeg] = IF files # <<>> THEN add_version(@, files) ELSE @]
    /\ events' = events
          \o (IF files # <<>>
              THEN <<Ev("progress", "version", Len(segs[CurSeg].versions) + 1, files)>>
              ELSE <<>>)
          \o <<Ev("segment_finished", "", segs[CurSeg].index, files)>>
    /\ w_files' = <<>>
    /\ w_i' = w_i + 1
    /\ wpc' = "loop"

\* lines 83-92: is_running holds: the chunk is saved under its file name
run_chunk_save ==
    /\ wpc = "yielded"
    /\ w_is_running
    /\ LET filepath == generate_filename(segs[CurSeg], Len(w_files),
                                         segs[CurSeg].run_count + 1)
       IN /\ w_files' = Append(w_files, filepath)
          /\ w_all' = Append(w_all, filepath)
          /\ events' = Emit(Ev("progress", "saved", segs[CurSeg].index, <<filepath>>))
    /\ wpc' = "call"
    /\ UNCHANGED <<segs, task_segments, w_segments, w_cosyvoice, w_is_running, w_i,
                   runs, cosyvoice_model, modelState, guiQueue, infoBar>>
    /\ UNCHANGED apiVars
    /\ UNCHANGED callVars
    /\ UNCHANGED planVars

\* lines 80-81: stop() was called: break, then lines 94-100
run_chunk_cancelled ==
    /\ wpc = "yielded"
    /\ ~w_is_running
    /\ SegmentEnd(w_files)
    /\ UNCHANGED <<task_segments, w_segments, w_cosyvoice, w_is_running, w_all, runs,
                   cosyvoice_model, modelState, guiQueue, infoBar>>
    /\ UNCHANGED apiVars
    /\ UNCHANGED callVars
    /\ UNCHANGED planVars

\* the generator is exhausted, then lines 94-100
run_chunk_exhausted ==
    /\ wpc = "infer"
    /\ SegmentEnd(w_files)
    /\ UNCHANGED <<task_segments, w_segments, w_cosyvoice, w_is_running, w_all, runs,
                   cosyvoice_model, modelState, guiQueue, infoBar>>
    /\ UNCHANGED apiVars
    /\ UNCHANGED callVars
    /\ UNCHANGED planVars

\* the model call raises: nothing in the loop catches it, line 105 does
run_chunk_raise ==
    /\ wpc = "infer"
    /\ events' = Emit(Ev("error", "synthesis", segs[CurSeg].index, <<>>))
    /\ wpc' = "done"
    /\ UNCHANGED <<segs, task_segments, w_segments, w_cosyvoice, w_is_running, w_i,
                   w_files, w_all, runs, cosyvoice_model, modelState, guiQueue, infoBar>>
    /\ UNCHANGED apiVars
    /\ UNCHANGED callVars
    /\ UNCHANGED planVars

\* AudioGenerationWorker.stop(), called while the thread is alive
stop ==
    /\ WorkerIsRunning
    /\ w_is_running
    /\ w_is_running' = FALSE
    /\ UNCHANGED <<segs, task_segments, wpc, w_segments, w_cosyvoice, w_i, w_files,
                   w_all, events, runs, cosyvoice_model, modelState,
                   guiQueue, infoBar>>
    /\ UNCHANGED apiVars
    /\ UNCHANGED callVars
    /\ UNCHANGED planVars

\* ------------------------------------------ ui/task_plan.py, GUI thread
\* TaskPlanInterface.on_audio_combo_changed: segment.set_audio(version, seg)
on_audio_combo_changed ==
    /\ \E row \in 1..Len(task_segments), version \in 0..(MaxRuns + 1),
          seg \in 0..(MaxChunks + 1) :
        segs' = [segs EXCEPT ![task_segments[row]] = set_audio(@, version, seg).seg]
    /\ UNCHANGED <<task_segments, cosyvoice_model, modelState, guiQueue, infoBar>>
    /\ UNCHANGED workerVars
    /\ UNCHANGED apiVars
    /\ UNCHANGED callVars
    /\ UNCHANGED planVars

\* a caller of TaskSegment.add_version with any file list, the empty one included
TaskSegment_add_version ==
    /\ \E s \in SegIds, n \in 0..MaxChunks :
        /\ Len(segs[s].versions) < MaxRuns
        /\ segs' = [segs EXCEPT ![s] = add_version(@,
                        [c \in 1..n |-> generate_filename(@, c - 1, @.run_count + 1)])]
    /\ UNCHANGED <<task_segments, cosyvoice_model, modelState, guiQueue, infoBar>>
    /\ UNCHANGED workerVars
    /\ UNCHANGED apiVars
    /\ UNCHANGED callVars
    /\ UNCHANGED planVars

\* ---------------------------------------- ui/main_window.py, GUI thread
\* start_generation without the isRunning() test of line 426: a worker is made
\* whatever the current one does
start_generation_unchecked(segments) ==
    /\ runs < MaxRuns
    /\ cosyvoice_model # None \/ FreshModels # {}
    /\ runs' = runs + 1
    /\ w_segments' = segments
    /\ w_cosyvoice' = cosyvoice_model
    /\ w_is_running' = TRUE
    /\ w_i' = 1
    /\ w_files' = <<>>
    /\ w_all' = <<>>
    /\ events' = <<>>
    /\ wpc' = "start"
    /\ UNCHANGED infoBar
    /\ UNCHANGED <<segs, task_segments, cosyvoice_model, modelState, guiQueue>>
    /\ UNCHANGED apiVars
    /\ UNCHANGED callVars
    /\ UNCHANGED planVars

\* CosyVoiceProApp.start_generation
start_generation(segments) ==
    /\ IF WorkerIsRunning
       THEN /\ infoBar' = "already_running"
            /\ UNCHANGED workerVars
       ELSE /\ runs < MaxRuns
            /\ cosyvoice_model # None \/ FreshModels # {}
            /\ runs' = runs + 1
            /\ w_segments' = segments
            /\ w_cosyvoice' = cosyvoice_model
            /\ w_is_running' = TRUE
            /\ w_i' = 1
            /\ w_files' = <<>>
            /\ w_all' = <<>>
            /\ events' = <<>>
            /\ wpc' = "start"
            /\ UNCHANGED infoBar
    /\ UNCHANGED <<segs, task_segments, cosyvoice_model, modelState, guiQueue>>
    /\ UNCHANGED apiVars
    /\ UNCHANGED callVars
    /\ UNCHANGED planVars

\* CosyVoiceProApp.run_single_segment
run_single_segment ==
    \E index \in 0..(Len(task_segments) - 1) :
        start_generation(<<task_segments[index + 1]>>)

\* CosyVoiceProApp.run_all_segments
run_all_segments ==
    /\ task_segments # <<>>
    /\ start_generation(task_segments)

\* the segment lists get_text_segments can give a quick run: none, or new
\* TaskSegment objects, which are segments outside the plan that have not run
QuickSegments ==
    {<<>>} \cup {<<s>> : s \in {t \in SegIds :
                                  /\ \A k \in 1..Len(task_segments) :
                                         task_segments[k] # t
                                  /\ segs[t].versions = <<>>}}

\* CosyVoiceProApp.quick_run
quick_run ==
    \E segments \in QuickSegments :
        IF segments = <<>>
        THEN /\ infoBar' = "no_content"
             /\ UNCHANGED <<segs, task_segments, cosyvoice_model, modelState,
                            guiQueue>>
             /\ UNCHANGED workerVars
             /\ UNCHANGED apiVars
             /\ UNCHANGED callVars
             /\ UNCHANGED planVars
        ELSE start_generation(segments)

\* CosyVoiceProApp.on_generation_finished, the slot of worker.finished
on_generation_finished ==
    /\ guiQueue # <<>> /\ Head(guiQueue)[1] = "gen_finished"
    /\ guiQueue' = Tail(guiQueue)
    /\ cosyvoice_model' = IF wpc # "none" THEN w_cosyvoice ELSE cosyvoice_model
    /\ UNCHANGED <<segs, task_segments, modelState, infoBar>>
    /\ UNCHANGED workerVars
    /\ UNCHANGED apiVars
    /\ UNCHANGED callVars
    /\ UNCHANGED planVars

\* merge_all_audio taking the files of the newest version, not the selected one
version_files_latest(segment) ==
    segment.versions[Len(segment.versions)]

\* merge_all_audio, lines 503-509: the files a segment with versions contributes
version_files(segment) ==
    LET version_idx == segment.current_version
    IN IF 0 <= version_idx /\ version_idx < Len(segment.versions)
       THEN segment.versions[version_idx + 1]
       ELSE <<>>

\* merge_all_audio, lines 496-509: the loop over the plan from position k on
RECURSIVE MergeFrom(_)
MergeFrom(k) ==
    IF k > Len(task_segments) THEN <<>>
    ELSE LET segment == segs[task_segments[k]]
         IN (IF segment.versions = <<>> THEN <<>> ELSE version_files(segment))
               \o MergeFrom(k + 1)

\* merge_all_audio: the list handed to merge_audio_files
files_to_merge == MergeFrom(1)

\* CosyVoiceProApp.merge_all_audio: a warning when there is nothing to merge,
\* else merge_audio_files(files_to_merge, ...) writes the merged file
merge_all_audio ==
    /\ infoBar' = IF files_to_merge = <<>> THEN "no_audio" ELSE infoBar
    /\ UNCHANGED <<segs, task_segments, cosyvoice_model, modelState, guiQueue>>
    /\ UNCHANGED workerVars
    /\ UNCHANGED apiVars
    /\ UNCHANGED callVars
    /\ UNCHANGED planVars

\* CosyVoiceProApp.on_load_model_clicked
on_load_model_clicked ==
    /\ IF cosyvoice_model # None
       THEN /\ infoBar' = "already_loaded"
            /\ UNCHANGED <<modelState>>
       ELSE /\ FreshModels # {}
            /\ modelState' = [modelState EXCEPT ![FreshModel] = "loading_main"]
            /\ UNCHANGED infoBar
    /\ UNCHANGED <<segs, task_segments, cosyvoice_model, guiQueue>>
    /\ UNCHANGED workerVars
    /\ UNCHANGED apiVars
    /\ UNCHANGED callVars
    /\ UNCHANGED planVars

\* whose slots a ModelLoaderThread's signals are connected to
Receiver(m) == IF modelState[m] = "loading_main" THEN "main" ELSE "api"

\* ModelLoaderThread.run: the load succeeds and success(model) is emitted
ModelLoaderThread_run_success ==
    /\ \E m \in ModelIds :
        /\ modelState[m] \in {"loading_main", "loading_api"}
        /\ modelState' = [modelState EXCEPT ![m] = "loaded"]
        /\ guiQueue' = Append(guiQueue, <<"load_success_" \o Receiver(m), m>>)
    /\ UNCHANGED <<segs, task_segments, cosyvoice_model, infoBar>>
    /\ UNCHANGED workerVars
    /\ UNCHANGED apiVars
    /\ UNCHANGED callVars
    /\ UNCHANGED planVars

\* ModelLoaderThread.run: the load fails and error(str) is emitted
ModelLoaderThread_run_error ==
    /\ \E m \in ModelIds :
        /\ modelState[m] \in {"loading_main", "loading_api"}
        /\ modelState' = [modelState EXCEPT ![m] = "failed"]
        /\ guiQueue' = IF Receiver(m) = "api"
                       THEN Append(guiQueue, <<"load_error_api", m>>)
                       ELSE guiQueue
    /\ UNCHANGED <<segs, task_segments, cosyvoice_model, infoBar>>
    /\ UNCHANGED workerVars
    /\ UNCHANGED apiVars
    /\ UNCHANGED callVars
    /\ UNCHANGED planVars

\* CosyVoiceProApp.on_model_loaded_success
on_model_loaded_success ==
    /\ guiQueue # <<>> /\ Head(guiQueue)[1] = "load_success_main"
    /\ guiQueue' = Tail(guiQueue)
    /\ cosyvoice_model' = Head(guiQueue)[2]
    /\ UNCHANGED <<segs, task_segments, modelState, infoBar>>
    /\ UNCHANGED workerVars
    /\ UNCHANGED apiVars
    /\ UNCHANGED callVars
    /\ UNCHANGED planVars

\* on_unload_model_clicked without the test of line 300
on_unload_model_clicked_unchecked ==
    /\ IF cosyvoice_model = None
       THEN /\ infoBar' = "no_model"
            /\ UNCHANGED <<cosyvoice_model, modelState>>
       ELSE /\ cosyvoice_model' = None
            /\ modelState' = [modelState EXCEPT ![cosyvoice_model] = "unloading"]
            /\ UNCHANGED infoBar
    /\ UNCHANGED <<segs, task_segments, guiQueue>>
    /\ UNCHANGED workerVars
    /\ UNCHANGED apiVars
    /\ UNCHANGED callVars
    /\ UNCHANGED planVars

\* CosyVoiceProApp.on_unload_model_clicked
on_unload_model_clicked ==
    /\ IF cosyvoice_model = None
       THEN /\ infoBar' = "no_model"
            /\ UNCHANGED <<cosyvoice_model, modelState>>
       ELSE IF WorkerIsRunning
       THEN /\ infoBar' = "task_running"
            /\ UNCHANGED <<cosyvoice_model, modelState>>
       ELSE /\ cosyvoice_model' = None
            /\ modelState' = [modelState EXCEPT ![cosyvoice_model] = "unloading"]
            /\ UNCHANGED infoBar
    /\ UNCHANGED <<segs, task_segments, guiQueue>>
    /\ UNCHANGED workerVars
    /\ UNCHANGED apiVars
    /\ UNCHANGED callVars
    /\ UNCHANGED planVars

\* ModelUnloaderThread.run: unload_cosyvoice_model(model), then finished
ModelUnloaderThread_run ==
    /\ \E m \in ModelIds :
        /\ modelState[m] = "unloading"
        /\ modelState' = [modelState EXCEPT ![m] = "unloaded"]
    /\ UNCHANGED <<segs, task_segments, cosyvoice_model, guiQueue, infoBar>>
    /\ UNCHANGED workerVars
    /\ UNCHANGED apiVars
    /\ UNCHANGED callVars
    /\ UNCHANGED planVars

\* ------------------------------------------- ui/api_page.py, GUI thread
\* QThread.isRunning() of server_thread
ServerIsRunning == srvPc \in {"starting", "serving", "shut", "closed"}

\* APIPageInterface.start_server_process, with the model handle it passes on
start_server_process(model) ==
    /\ srv_starts < MaxStarts
    /\ srv_starts' = srv_starts + 1
    /\ srv_model' = model
    /\ srvPc' = "starting"
    /\ start_btn' = FALSE
    /\ UNCHANGED srv_socket

\* APIPageInterface.toggle_server, the click slot of start_btn
toggle_server ==
    /\ start_btn
    /\ IF ServerIsRunning
       THEN \* server_thread.stop(): shutdown() returns once serve_forever has
            \* left its loop, which it does between two requests
            /\ start_btn' = FALSE
            /\ IF srvPc = "serving"
               THEN /\ reqPc = "idle"
                    /\ srvPc' = "shut"
               ELSE UNCHANGED srvPc
            /\ UNCHANGED <<srv_model, srv_starts, srv_socket, cosyvoice_model,
                           modelState, guiQueue>>
       ELSE LET adopted == IF cosyvoice_model = None /\ wpc # "none"
                           THEN w_cosyvoice ELSE cosyvoice_model
            IN /\ cosyvoice_model' = adopted
               /\ IF adopted = None
                  THEN /\ FreshModels # {}
                       /\ modelState' = [modelState EXCEPT ![FreshModel] = "loading_api"]
                       /\ start_btn' = FALSE
                       /\ UNCHANGED <<srvPc, srv_model, srv_starts, srv_socket>>
                  ELSE /\ start_server_process(adopted)
                       /\ UNCHANGED <<modelState>>
               /\ UNCHANGED guiQueue
    /\ UNCHANGED <<segs, task_segments, infoBar, api_cosyvoice, reqPc>>
    /\ UNCHANGED workerVars
    /\ UNCHANGED callVars
    /\ UNCHANGED planVars

\* APIPageInterface.on_auto_load_model_success
on_auto_load_model_success ==
    /\ guiQueue # <<>> /\ Head(guiQueue)[1] = "load_success_api"
    /\ guiQueue' = Tail(guiQueue)
    /\ cosyvoice_model' = Head(guiQueue)[2]
    /\ start_server_process(Head(guiQueue)[2])
    /\ UNCHANGED <<segs, task_segments, modelState, infoBar, api_cosyvoice,
                   reqPc>>
    /\ UNCHANGED workerVars
    /\ UNCHANGED callVars
    /\ UNCHANGED planVars

\* APIPageInterface.on_auto_load_model_error
on_auto_load_model_error ==
    /\ guiQueue # <<>> /\ Head(guiQueue)[1] = "load_error_api"
    /\ guiQueue' = Tail(guiQueue)
    /\ start_btn' = TRUE
    /\ UNCHANGED <<segs, task_segments, cosyvoice_model, modelState, infoBar, srvPc,
                   srv_model, srv_starts, srv_socket, api_cosyvoice,
                   reqPc>>
    /\ UNCHANGED workerVars
    /\ UNCHANGED callVars
    /\ UNCHANGED planVars

\* APIServerThread.run: set_globals, make_server binds the port, serving starts
APIServerThread_run ==
    /\ srvPc = "starting"
    /\ api_cosyvoice' = srv_model
    /\ srvPc' = "serving"
    /\ srv_socket' = TRUE
    /\ guiQueue' = Append(guiQueue, <<"server_started", 0>>)
    /\ UNCHANGED <<segs, task_segments, cosyvoice_model, modelState, infoBar,
                   srv_model, srv_starts, start_btn, reqPc>>
    /\ UNCHANGED workerVars
    /\ UNCHANGED callVars
    /\ UNCHANGED planVars

\* APIServerThread.run: make_server raises (the port is taken): error, then stopped
APIServerThread_run_error ==
    /\ srvPc = "starting"
    /\ api_cosyvoice' = srv_model
    /\ srvPc' = "done"
    /\ guiQueue' = guiQueue \o <<<<"server_error", 0>>, <<"server_stopped", 0>>>>
    /\ UNCHANGED <<segs, task_segments, cosyvoice_model, modelState, infoBar,
                   srv_model, srv_starts, srv_socket, start_btn, reqPc>>
    /\ UNCHANGED workerVars
    /\ UNCHANGED callVars
    /\ UNCHANGED planVars

\* the listening socket stays bound when serve_forever returns
server_close_skipped == srv_socket

\* werkzeug's BaseWSGIServer.serve_forever ends with server_close(), whatever
\* ended its loop
server_close == FALSE

\* APIServerThread.run, line 181: shutdown() has ended the loop of
\* serve_forever, which closes the socket and returns
APIServerThread_serve_exit ==
    /\ srvPc = "shut"
    /\ srvPc' = "closed"
    /\ srv_socket' = server_close
    /\ UNCHANGED <<srv_model, srv_starts, start_btn, api_cosyvoice, reqPc>>
    /\ UNCHANGED appVars
    /\ UNCHANGED workerVars
    /\ UNCHANGED callVars
    /\ UNCHANGED planVars

\* APIServerThread.run, lines 186-188: the finally block reports stopped
APIServerThread_run_finally ==
    /\ srvPc = "closed"
    /\ srvPc' = "done"
    /\ guiQueue' = Append(guiQueue, <<"server_stopped", 0>>)
    /\ UNCHANGED <<segs, task_segments, cosyvoice_model, modelState, infoBar,
                   srv_model, srv_starts, srv_socket, start_btn, api_cosyvoice,
                   reqPc>>
    /\ UNCHANGED workerVars
    /\ UNCHANGED callVars
    /\ UNCHANGED planVars

\* APIPageInterface.on_server_started
on_server_started ==
    /\ guiQueue # <<>> /\ Head(guiQueue)[1] = "server_started"
    /\ guiQueue' = Tail(guiQueue)
    /\ start_btn' = TRUE
    /\ UNCHANGED <<segs, task_segments, cosyvoice_model, modelState, infoBar, srvPc,
                   srv_model, srv_starts, srv_socket, api_cosyvoice,
                   reqPc>>
    /\ UNCHANGED workerVars
    /\ UNCHANGED callVars
    /\ UNCHANGED planVars

\* APIPageInterface.on_server_stopped
on_server_stopped ==
    /\ guiQueue # <<>> /\ Head(guiQueue)[1] = "server_stopped"
    /\ guiQueue' = Tail(guiQueue)
    /\ start_btn' = TRUE
    /\ UNCHANGED <<segs, task_segments, cosyvoice_model, modelState, infoBar,
                   srvPc, srv_model, srv_starts, srv_socket, api_cosyvoice,
                   reqPc>>
    /\ UNCHANGED workerVars
    /\ UNCHANGED callVars
    /\ UNCHANGED planVars

\* APIPageInterface.on_server_error
on_server_error ==
    /\ guiQueue # <<>> /\ Head(guiQueue)[1] = "server_error"
    /\ guiQueue' = Tail(guiQueue)
    /\ start_btn' = TRUE
    /\ UNCHANGED <<segs, task_segments, cosyvoice_model, modelState, infoBar, srvPc,
                   srv_model, srv_starts, srv_socket, api_cosyvoice,
                   reqPc>>
    /\ UNCHANGED workerVars
    /\ UNCHANGED callVars
    /\ UNCHANGED planVars

\* ------------------------------------- core/api.py, the server's thread
\* tts_tavern / tts_api reach _inference, which calls the model (lines 654, 693, 725)
inference_call ==
    /\ srvPc = "serving"
    /\ reqPc = "idle"
    /\ api_cosyvoice # None
    /\ reqPc' = "infer"
    /\ UNCHANGED <<segs, task_segments, cosyvoice_model, modelState, guiQueue,
                   infoBar, srvPc, srv_model, srv_starts, srv_socket,
                   start_btn, api_cosyvoice>>
    /\ UNCHANGED workerVars
    /\ UNCHANGED callVars
    /\ UNCHANGED planVars

\* the model call of _inference returns or raises; the response is sent
inference_return ==
    /\ reqPc = "infer"
    /\ reqPc' = "idle"
    /\ UNCHANGED <<segs, task_segments, cosyvoice_model, modelState, guiQueue,
                   infoBar, srvPc, srv_model, srv_starts, srv_socket,
                   start_btn, api_cosyvoice>>
    /\ UNCHANGED workerVars
    /\ UNCHANGED callVars
    /\ UNCHANGED planVars

\* ---------------------------------------------------------------- strings
\* a Python str is the sequence of its characters; the characters of the model:
\* a letter, a blank, a newline and '#', which clean_text does not allow
TextChars == {"a", " ", "#"}

\* the characters str.strip() removes
IsSpace(c) == c \in {" ", "\n", "\t"}

RECURSIVE lstrip(_)
lstrip(t) == IF t # <<>> /\ IsSpace(Head(t)) THEN lstrip(Tail(t)) ELSE t

RECURSIVE rstrip(_)
rstrip(t) ==
    IF t # <<>> /\ IsSpace(t[Len(t)]) THEN rstrip(SubSeq(t, 1, Len(t) - 1)) ELSE t

\* str.strip()
strip(t) == rstrip(lstrip(t))

\* all strings of at most n characters out of chars
StringsUpTo(chars, n) == UNION {[1..k -> chars] : k \in 0..n}

\* ----------------------------------------------------------- core/api.py
\* two characters beyond ASCII: a CJK ideograph, which is on the list of
\* clean_text, and an accented letter, which is not
Ideograph == "zh"
Accented == "e'"

\* clean_text, lines 121-137: the characters of the list
allowed_chars(c) == c \in {"a", " ", "\n", "\t", Ideograph}

\* ord(c) > 127
beyond_ascii(c) == c \in {Ideograph, Accented}

\* clean_text, line 140: c in allowed_chars or ord(c) > 127 and c not in
\* '\x00\x01\x02' (no character beyond 127 is one of these three)
kept(c) == allowed_chars(c) \/ beyond_ascii(c)

\* str.replace('  ', ' '): one pass from the left over non-overlapping matches
RECURSIVE replace_blanks(_)
replace_blanks(t) ==
    IF Len(t) < 2 THEN t
    ELSE IF t[1] = " " /\ t[2] = " "
    THEN <<" ">> \o replace_blanks(SubSeq(t, 3, Len(t)))
    ELSE <<t[1]>> \o replace_blanks(Tail(t))

\* lines 143-144: while '  ' in cleaned: cleaned = cleaned.replace('  ', ' ')
RECURSIVE collapse_blanks(_)
collapse_blanks(t) ==
    IF \E i \in 1..(Len(t) - 1) : t[i] = " " /\ t[i + 1] = " "
    THEN collapse_blanks(replace_blanks(t))
    ELSE t

\* clean_text
clean_text(text) ==
    IF text = <<>> THEN text
    ELSE strip(collapse_blanks(SelectSeq(text, kept)))

\* the mode names: '零样本复制', '精细控制', '指令控制', '语音修补'
ZeroShot == "ZeroShot"
CrossLingual == "CrossLingual"
Instruct == "Instruct"
Repair == "Repair"

\* _inference, lines 620-625: mode_mapping.get(mode, mode)
mode_mapping(mode) ==
    CASE mode = "zero-shot" -> ZeroShot
      [] mode = "fine-grained" -> CrossLingual
      [] mode = "instruction" -> Instruct
      [] OTHER -> mode

\* os.path.exists of a reference audio path: "ref.wav" is the file that exists
exists(path) == path = "ref.wav"

\* what _inference and the worker's dispatch come to: the model call made (or
\* "none") and whether audio came back
Dispatched(model_call, audio) == [model_call |-> model_call, audio |-> audio]

\* _inference, lines 606-739, up to the audio returned; mode "None" is Python's
\* None; outcome is what the model call does: "ok", "empty" (it yields nothing)
\* or "raise"
inference(cosy, char_config, mode, outcome) ==
    IF cosy = None THEN Dispatched("none", FALSE)
    ELSE LET m == mode_mapping(IF mode = "None" THEN char_config.mode ELSE mode)
             no_audio == char_config.prompt_audio = "" \/ ~exists(char_config.prompt_audio)
         IN CASE m = ZeroShot ->
                    IF no_audio \/ char_config.prompt_text = ""
                    THEN Dispatched("none", FALSE)
                    ELSE Dispatched("inference_zero_shot", outcome = "ok")
              [] m = Instruct ->
                    IF no_audio \/ char_config.instruct_text = ""
                    THEN Dispatched("none", FALSE)
                    ELSE Dispatched("inference_instruct2", outcome = "ok")
              [] m = CrossLingual ->
                    IF no_audio
                    THEN Dispatched("none", FALSE)
                    ELSE Dispatched("inference_cross_lingual", outcome = "ok")
              [] OTHER -> Dispatched("none", FALSE)

\* AudioGenerationWorker.get_inference_function: the model call of a mode
get_inference_function(mode) ==
    CASE mode = ZeroShot -> "inference_zero_shot"
      [] mode = CrossLingual -> "inference_cross_lingual"
      [] mode = Instruct -> "inference_instruct2"
      [] mode = Repair -> "inference_zero_shot"
      [] OTHER -> "inference_zero_shot"

\* TaskSegment.__init__, line 36: self.mode = mode or voice_config.mode
segment_mode(mode, voice_config) ==
    IF mode \in {"None", ""} THEN voice_config.mode ELSE mode

\* AudioGenerationWorker.run, lines 65-79, for one segment: the reference audio
\* is tested, then the inference function of the segment's mode is called
worker_dispatch(voice_config, mode, outcome) ==
    IF voice_config.prompt_audio = "" \/ ~exists(voice_config.prompt_audio)
    THEN Dispatched("none", FALSE)
    ELSE Dispatched(get_inference_function(segment_mode(mode, voice_config)),
                    outcome = "ok")

\* an instruction text is a sequence of tokens: "M" is '<|endofprompt|>', "P" is
\* 'You are a helpful assistant.', "x" and " " are any other character and a blank
PromptTokens == {"x", "M", "P"}

\* the formatting without the marker: only the preamble is put in front
instruct_prompt_no_marker(is_v3, instruct_text) ==
    IF is_v3 /\ \A i \in 1..Len(instruct_text) : instruct_text[i] # "P"
    THEN <<"P", " ">> \o instruct_text
    ELSE instruct_text

\* worker.py lines 167-174 and api.py lines 684-689: the instruction text handed
\* to inference_instruct2
instruct_prompt(is_v3, instruct_text) ==
    IF is_v3
    THEN LET marked == IF \A i \in 1..Len(instruct_text) : instruct_text[i] # "M"
                       THEN instruct_text \o <<"M">>
                       ELSE instruct_text
         IN IF \A i \in 1..Len(marked) : marked[i] # "P"
            THEN <<"P", " ">> \o marked
            ELSE marked
    ELSE instruct_text

\* a voice profile as the API's character_config holds it
VoiceConfig(mode, prompt_text, prompt_audio, instruct_text) ==
    [mode |-> mode, prompt_text |-> prompt_text, prompt_audio |-> prompt_audio,
     instruct_text |-> instruct_text]

\* character_config.characters of the HTTP runs: "A" is complete, the reference
\* audio of "B" does not exist
characters ==
    (<<"A">> :> VoiceConfig(ZeroShot, "t", "ref.wav", "i"))
        @@ (<<"B">> :> VoiceConfig(ZeroShot, "t", "gone.wav", "i"))

\* Python's None where a profile is expected
NoConfig == [mode |-> "None"]

\* CharacterConfig.get_character: self.characters.get(char_name, None)
get_character(char_name) ==
    IF char_name \in DOMAIN characters THEN characters[char_name] ELSE NoConfig

\* the response of a route: its HTTP status and the model calls made for it
Response(status, model_call) == [status |-> status, model_call |-> model_call]

\* the routes with the profile looked up before the name is tested for emptiness
tts_route_lookup_first(data, pass_mode) ==
    IF data.cosyvoice = None THEN Response(500, "none")
    ELSE IF ~data.speed_ok THEN Response(500, "none")
    ELSE LET text == strip(data.text)
             character_name == strip(data.name)
         IN IF text = <<>> THEN Response(400, "none")
            ELSE LET char_config == get_character(character_name)
                 IN IF char_config = NoConfig THEN Response(404, "none")
                    ELSE IF Len(clean_text(text)) < data.min_text_length
                    THEN Response(400, "none")
                    ELSE LET r == inference(data.cosyvoice, char_config,
                                            IF pass_mode THEN data.mode ELSE "None",
                                            data.outcome)
                         IN Response(IF r.audio THEN 200 ELSE 500, r.model_call)

\* the body of tts_tavern (lines 275-368) and tts_api (lines 396-491); pass_mode:
\* tts_api hands data['mode'] to _inference, tts_tavern hands None
tts_route(data, pass_mode) ==
    IF data.cosyvoice = None THEN Response(500, "none")
    ELSE IF ~data.speed_ok THEN Response(500, "none")
    ELSE LET text == strip(data.text)
             character_name == strip(data.name)
         IN IF text = <<>> THEN Response(400, "none")
            ELSE IF character_name = <<>> THEN Response(400, "none")
            ELSE LET char_config == get_character(character_name)
                 IN IF char_config = NoConfig THEN Response(404, "none")
                    ELSE IF Len(clean_text(text)) < data.min_text_length
                    THEN Response(400, "none")
                    ELSE LET r == inference(data.cosyvoice, char_config,
                                            IF pass_mode THEN data.mode ELSE "None",
                                            data.outcome)
                         IN Response(IF r.audio THEN 200 ELSE 500, r.model_call)

\* the worker dispatches one segment of the given profile and mode
run_dispatch ==
    /\ call.fn = "run" /\ ret = NoCall
    /\ ret' = worker_dispatch(call.voice_config, call.mode, call.outcome)
    /\ UNCHANGED call
    /\ UNCHANGED planVars
    /\ UNCHANGED appVars
    /\ UNCHANGED workerVars
    /\ UNCHANGED apiVars

\* _inference is called with the given profile and mode on a loaded model
inference_dispatch ==
    /\ call.fn = "_inference" /\ ret = NoCall
    /\ ret' = inference(1, call.voice_config, call.mode, call.outcome)
    /\ UNCHANGED call
    /\ UNCHANGED planVars
    /\ UNCHANGED appVars
    /\ UNCHANGED workerVars
    /\ UNCHANGED apiVars

\* the inference function of the Instruct mode formats its instruction text
format_instruct ==
    /\ call.fn = "instruct_prompt" /\ ret = NoCall
    /\ ret' = [text |-> instruct_prompt(call.is_v3, call.instruct_text)]
    /\ UNCHANGED call
    /\ UNCHANGED planVars
    /\ UNCHANGED appVars
    /\ UNCHANGED workerVars
    /\ UNCHANGED apiVars

\* POST /: tts_tavern answers the request
tts_tavern ==
    /\ call.fn = "tts_tavern" /\ ret = NoCall
    /\ ret' = tts_route(call.data, FALSE)
    /\ UNCHANGED call
    /\ UNCHANGED planVars
    /\ UNCHANGED appVars
    /\ UNCHANGED workerVars
    /\ UNCHANGED apiVars

\* POST /api/tts: tts_api answers the request
tts_api ==
    /\ call.fn = "tts_api" /\ ret = NoCall
    /\ ret' = tts_route(call.data, TRUE)
    /\ UNCHANGED call
    /\ UNCHANGED planVars
    /\ UNCHANGED appVars
    /\ UNCHANGED workerVars
    /\ UNCHANGED apiVars

\* ------------------------------------------ ui/task_plan.py, plan editor
\* the text add_segment gives a new row
Placeholder == "new"

\* models.py line 33: the seed a segment gets when none is given
default_seed == 42

\* models.py lines 5-14: a voice profile with its name and colour
NamedConfig(name, mode, instruct_text) ==
    [name |-> name, color |-> "#FFFF00"]
        @@ VoiceConfig(mode, "t", "ref.wav", instruct_text)

\* the profiles of the voice settings page, in the order of the dict
VoiceProfiles ==
    <<NamedConfig("A", ZeroShot, ""), NamedConfig("B", Instruct, "calm")>>

\* models.py lines 15-23
to_dict(vc) ==
    [name |-> vc.name, mode |-> vc.mode, prompt_text |-> vc.prompt_text,
     prompt_audio |-> vc.prompt_audio, instruct_text |-> vc.instruct_text,
     color |-> vc.color]

\* a voice_config entry of a plan file that VoiceConfig(**data) rejects
Malformed == [unexpected |-> "key"]

\* models.py lines 25-27: cls(**data)
from_dict(data) ==
    [name |-> data.name, color |-> data.color]
        @@ VoiceConfig(data.mode, data.prompt_text, data.prompt_audio,
                       data.instruct_text)

\* Python's "a or b" on strings and None: None and '' are both falsy and are both
\* written "" here
Or(a, b) == IF a = "" THEN b ELSE a

\* models.py lines 32-45: TaskSegment.__init__ with all its arguments
TaskSegment_init(index, text, voice_config, mode, instruct_text, seed) ==
    [text |-> text, voice_config |-> voice_config,
     mode |-> Or(mode, voice_config.mode),
     instruct_text |-> Or(instruct_text, voice_config.instruct_text),
     seed |-> seed]
        @@ TaskSegment(index, exists(voice_config.prompt_audio))

\* renumbering left out: every row keeps the index it had
renumber_segments_none(rows) == rows

\* task_plan.py lines 373-376
renumber_segments(rows) ==
    [i \in 1..Len(rows) |-> [rows[i] EXCEPT !.index = i]]

\* rows are numbered from 0 in the widget and in Python, from 1 here
ValidRow(row) == 0 <= row /\ row < Len(plan_rows)

\* Python's list[row], where a negative row counts from the end
PyIndex(rows, row) == IF row < 0 THEN Len(rows) + row + 1 ELSE row + 1

PlanTexts == {"t", Placeholder}
PlanModes == {ZeroShot, Instruct}
PlanInstructs == {"", "calm"}
PlanSeeds == {default_seed, 7}

\* task_plan.py lines 157-163: the rows are rebuilt from the segmenter's runs
load_segments ==
    \E n \in 0..MaxPlan :
        \E cfg \in [1..n -> 1..Len(VoiceProfiles)] :
            /\ plan_rows' = [i \in 1..n |->
                    TaskSegment_init(i, "t", VoiceProfiles[cfg[i]], "", "",
                                     default_seed)]
            /\ UNCHANGED <<plan_file, vs_voice_configs>>
            /\ UNCHANGED callVars
            /\ UNCHANGED appVars
            /\ UNCHANGED workerVars
            /\ UNCHANGED apiVars

\* list.insert(index, x) for 0 <= index <= len
Insert(rows, index, x) ==
    SubSeq(rows, 1, index) \o <<x>> \o SubSeq(rows, index + 1, Len(rows))

\* task_plan.py lines 336-352; all_voice_configs is what the voice settings page
\* holds at the time, empty or not
add_segment ==
    \E index \in (0 - 1)..(Len(plan_rows) + 1),
       all_voice_configs \in {<<>>, VoiceProfiles} :
        /\ Len(plan_rows) < MaxPlan
        /\ IF all_voice_configs = <<>>
           THEN UNCHANGED plan_rows
           ELSE LET new_segment == TaskSegment_init(0, Placeholder,
                                                    all_voice_configs[1], "", "",
                                                    default_seed)
                    inserted == IF 0 <= index /\ index <= Len(plan_rows)
                                THEN Insert(plan_rows, index, new_segment)
                                ELSE Append(plan_rows, new_segment)
                IN plan_rows' = renumber_segments(inserted)
        /\ UNCHANGED <<plan_file, vs_voice_configs>>
        /\ UNCHANGED callVars
        /\ UNCHANGED appVars
        /\ UNCHANGED workerVars
        /\ UNCHANGED apiVars

\* the largest row of a non-empty set
MaxRow(rows) == CHOOSE r \in rows : \A q \in rows : q <= r

\* list.pop(row) for 0 <= row < len
Pop(list, row) == SubSeq(list, 1, row) \o SubSeq(list, row + 2, Len(list))

\* task_plan.py lines 357-359: the rows are popped from the last to the first
RECURSIVE PopRows(_, _)
PopRows(list, rows) ==
    IF rows = {}
    THEN list
    ELSE LET row == MaxRow(rows)
         IN PopRows(IF 0 <= row /\ row < Len(list) THEN Pop(list, row) ELSE list,
                    rows \ {row})

\* task_plan.py lines 354-362
delete_segments ==
    \E rows \in SUBSET ((0 - 1)..Len(plan_rows)) :
        /\ plan_rows' = renumber_segments(PopRows(plan_rows, rows))
        /\ UNCHANGED <<plan_file, vs_voice_configs>>
        /\ UNCHANGED callVars
        /\ UNCHANGED appVars
        /\ UNCHANGED workerVars
        /\ UNCHANGED apiVars

\* task_plan.py lines 364-371; row is the table's current row, -1 when it has none
move_segment ==
    \E row \in (0 - 1)..(Len(plan_rows) - 1), direction \in {0 - 1, 1} :
        LET new_row == row + direction
            a == PyIndex(plan_rows, row)
            b == PyIndex(plan_rows, new_row)
        IN /\ IF 0 <= new_row /\ new_row < Len(plan_rows)
              THEN plan_rows' = renumber_segments(
                                    [plan_rows EXCEPT ![a] = plan_rows[b],
                                                      ![b] = plan_rows[a]])
              ELSE UNCHANGED plan_rows
           /\ UNCHANGED <<plan_file, vs_voice_configs>>
           /\ UNCHANGED callVars
           /\ UNCHANGED appVars
           /\ UNCHANGED workerVars
           /\ UNCHANGED apiVars

\* task_plan.py lines 271-276
on_voice_changed ==
    \E index \in 0..(Len(plan_rows) - 1), k \in 1..Len(VoiceProfiles) :
        /\ ValidRow(index)
        /\ plan_rows' = [plan_rows EXCEPT
                            ![index + 1].voice_config = VoiceProfiles[k],
                            ![index + 1].mode = VoiceProfiles[k].mode]
        /\ UNCHANGED <<plan_file, vs_voice_configs>>
        /\ UNCHANGED callVars
        /\ UNCHANGED appVars
        /\ UNCHANGED workerVars
        /\ UNCHANGED apiVars

\* task_plan.py lines 284-289
on_item_changed ==
    \E row \in 0..(Len(plan_rows) - 1), text \in PlanTexts :
        /\ ValidRow(row)
        /\ plan_rows' = [plan_rows EXCEPT ![row + 1].text = text]
        /\ UNCHANGED <<plan_file, vs_voice_configs>>
        /\ UNCHANGED callVars
        /\ UNCHANGED appVars
        /\ UNCHANGED workerVars
        /\ UNCHANGED apiVars

\* task_plan.py lines 396-398
on_mode_changed ==
    \E index \in 0..(Len(plan_rows) - 1), mode \in PlanModes :
        /\ ValidRow(index)
        /\ plan_rows' = [plan_rows EXCEPT ![index + 1].mode = mode]
        /\ UNCHANGED <<plan_file, vs_voice_configs>>
        /\ UNCHANGED callVars
        /\ UNCHANGED appVars
        /\ UNCHANGED workerVars
        /\ UNCHANGED apiVars

\* task_plan.py lines 400-402: the row's instruction becomes what was typed, the
\* empty text included
on_instruct_changed ==
    \E index \in 0..(Len(plan_rows) - 1), text \in PlanInstructs :
        /\ ValidRow(index)
        /\ plan_rows' = [plan_rows EXCEPT ![index + 1].instruct_text = text]
        /\ UNCHANGED <<plan_file, vs_voice_configs>>
        /\ UNCHANGED callVars
        /\ UNCHANGED appVars
        /\ UNCHANGED workerVars
        /\ UNCHANGED apiVars

\* task_plan.py lines 404-412: int(text) for a number, 42 for a blank text, and a
\* ValueError for anything else, which keeps the seed
on_seed_changed ==
    \E index \in 0..(Len(plan_rows) - 1), text \in {"7", " ", "x"} :
        /\ ValidRow(index)
        /\ plan_rows' = IF text = "7"
                        THEN [plan_rows EXCEPT ![index + 1].seed = 7]
                        ELSE IF text = " "
                             THEN [plan_rows EXCEPT ![index + 1].seed = default_seed]
                             ELSE plan_rows
        /\ UNCHANGED <<plan_file, vs_voice_configs>>
        /\ UNCHANGED callVars
        /\ UNCHANGED appVars
        /\ UNCHANGED workerVars
        /\ UNCHANGED apiVars

\* task_plan.py lines 498-505: what save_plan writes for one row
seg_data(segment) ==
    [text |-> segment.text, voice_config |-> to_dict(segment.voice_config),
     mode |-> segment.mode, instruct_text |-> segment.instruct_text,
     seed |-> segment.seed]

\* task_plan.py lines 478-513; the dialog may be cancelled, which writes nothing
save_plan ==
    \E cancelled \in BOOLEAN :
        /\ plan_file' = IF cancelled
                        THEN plan_file
                        ELSE [written |-> TRUE,
                              segments |-> [i \in 1..Len(plan_rows) |->
                                                seg_data(plan_rows[i])]]
        /\ UNCHANGED <<plan_rows, vs_voice_configs>>
        /\ UNCHANGED callVars
        /\ UNCHANGED appVars
        /\ UNCHANGED workerVars
        /\ UNCHANGED apiVars

\* plan files written by other means: an empty plan, a plan whose first row leaves
\* mode and instruction out, and a plan whose second row has a voice_config that
\* VoiceConfig(**data) rejects
ExternalFiles ==
    LET row(vc, mode, instruct_text) ==
            [text |-> "t", voice_config |-> vc, mode |-> mode,
             instruct_text |-> instruct_text, seed |-> default_seed]
    IN {[written |-> TRUE, segments |-> <<>>],
        [written |-> TRUE,
         segments |-> <<row(to_dict(VoiceProfiles[2]), "", ""),
                        row(to_dict(VoiceProfiles[1]), Instruct, "calm")>>],
        [written |-> TRUE,
         segments |-> <<row(to_dict(VoiceProfiles[1]), "", ""),
                        row(Malformed, "", ""),
                        row(to_dict(VoiceProfiles[2]), "", "")>>]}

\* the rows of a file before the first one whose voice_config raises
Loadable(segments) ==
    IF \E i \in 1..Len(segments) : segments[i].voice_config = Malformed
    THEN (CHOOSE i \in 1..Len(segments) :
            /\ segments[i].voice_config = Malformed
            /\ \A j \in 1..(i - 1) : segments[j].voice_config # Malformed) - 1
    ELSE Len(segments)

\* task_plan.py lines 526-563 for the file data: the rows are rebuilt one by one;
\* an exception ends the loop and keeps the rows appended so far
load_plan_from(data) ==
    /\ data.written
    /\ plan_rows' = [i \in 1..Loadable(data.segments) |->
            TaskSegment_init(i, data.segments[i].text,
                             from_dict(data.segments[i].voice_config),
                             data.segments[i].mode,
                             data.segments[i].instruct_text,
                             data.segments[i].seed)]
    /\ UNCHANGED <<plan_file, vs_voice_configs>>
    /\ UNCHANGED callVars
    /\ UNCHANGED appVars
    /\ UNCHANGED workerVars
    /\ UNCHANGED apiVars

\* task_plan.py lines 515-563: the file picked is the one saved last or another
load_plan == \E data \in {plan_file} \cup ExternalFiles : load_plan_from(data)

\* -------------------------------------------- ui/text_edit.py, segmenter
\* the document: its characters in order, each with the profile name its format
\* carries ("": none set)
DocChars == {"a", "b", " ", "\n"}
DocTags == {"", "A", "B"}
Docs == StringsUpTo([char : DocChars, config_name : DocTags], MaxDoc)

\* CustomTextEdit.voice_configs at the time of the call: no profile, both
\* profiles, or the second one only
ProfileSets == {<<>>, VoiceProfiles, <<VoiceProfiles[2]>>}

\* toPlainText()
toPlainText(doc) == [i \in 1..Len(doc) |-> doc[i].char]

\* text_edit.py lines 220-226: the profile a character resolves to, the first
\* profile when its format names none that is defined; NoConfig when no profile
\* is defined and the character is skipped
char_config_of(voice_configs, config_name) ==
    IF config_name # "" /\ \E k \in 1..Len(voice_configs) :
                                voice_configs[k].name = config_name
    THEN voice_configs[CHOOSE k \in 1..Len(voice_configs) :
                            voice_configs[k].name = config_name]
    ELSE IF voice_configs # <<>> THEN voice_configs[1] ELSE NoConfig

\* a run closes on a newline only
run_closes_newline_only(current_config, char_config, char) ==
    current_config # NoConfig /\ char = "\n"

\* a run closes on a change of profile only
run_closes_profile_only(current_config, char_config, char) ==
    current_config # NoConfig /\ current_config.name # char_config.name

\* text_edit.py lines 228-231
run_closes(current_config, char_config, char) ==
    /\ current_config # NoConfig
    /\ (current_config.name # char_config.name \/ char = "\n")

\* text_edit.py lines 211-245: one turn of the loop over the characters
scan_char(st, voice_configs, c) ==
    LET char_config == char_config_of(voice_configs, c.config_name)
        closed ==
            IF run_closes(st.current_config, char_config, c.char)
            THEN [segments |->
                    IF strip(st.current_segment) # <<>>
                    THEN Append(st.segments,
                                <<strip(st.current_segment), st.current_config>>)
                    ELSE st.segments,
                  current_segment |-> <<>>,
                  current_config |-> NoConfig]
            ELSE st
    IN IF char_config = NoConfig THEN st
       ELSE IF c.char = "\n" THEN closed
       ELSE IF ~IsSpace(c.char)
            THEN [closed EXCEPT
                    !.current_config = IF @ = NoConfig THEN char_config ELSE @,
                    !.current_segment = Append(@, c.char)]
       ELSE IF closed.current_segment # <<>>
            THEN [closed EXCEPT !.current_segment = Append(@, c.char)]
       ELSE closed

\* text_edit.py lines 208-245: the loop from character i on
RECURSIVE scan(_, _, _, _)
scan(st, voice_configs, doc, i) ==
    IF i > Len(doc)
    THEN st
    ELSE scan(scan_char(st, voice_configs, doc[i]), voice_configs, doc, i + 1)

\* the segmenter without the trimming of the last run
get_text_segments_untrimmed(voice_configs, doc) ==
    IF strip(toPlainText(doc)) = <<>>
    THEN <<>>
    ELSE LET st == scan([segments |-> <<>>, current_segment |-> <<>>,
                         current_config |-> NoConfig], voice_configs, doc, 1)
         IN IF strip(st.current_segment) # <<>> /\ st.current_config # NoConfig
            THEN Append(st.segments, <<st.current_segment, st.current_config>>)
            ELSE st.segments

\* text_edit.py lines 199-250
get_text_segments(voice_configs, doc) ==
    IF strip(toPlainText(doc)) = <<>>
    THEN <<>>
    ELSE LET st == scan([segments |-> <<>>, current_segment |-> <<>>,
                         current_config |-> NoConfig], voice_configs, doc, 1)
         IN IF strip(st.current_segment) # <<>> /\ st.current_config # NoConfig
            THEN Append(st.segments,
                        <<strip(st.current_segment), st.current_config>>)
            ELSE st.segments

\* a call of get_text_segments on a document
segment_text ==
    /\ call.fn = "get_text_segments" /\ ret = NoCall
    /\ ret' = [segments |-> get_text_segments(call.voice_configs, call.doc)]
    /\ UNCHANGED call
    /\ UNCHANGED planVars
    /\ UNCHANGED appVars
    /\ UNCHANGED workerVars
    /\ UNCHANGED apiVars

\* ------------------------------------- prompt formatting of the four modes
\* the reference transcript with the preamble and the marker put in front
\* whether or not the marker is there already
zero_shot_prompt_always(is_v3, prompt_text) ==
    IF is_v3 THEN <<"P", "M">> \o prompt_text ELSE prompt_text

\* worker.py lines 142-145 and 185-188, api.py lines 647-649: the reference
\* transcript handed to inference_zero_shot, for the modes zero-shot and repair
zero_shot_prompt(is_v3, prompt_text) ==
    IF is_v3 /\ \A i \in 1..Len(prompt_text) : prompt_text[i] # "M"
    THEN <<"P", "M">> \o prompt_text
    ELSE prompt_text

\* worker.py lines 155-158, api.py lines 718-721: the text handed to
\* inference_cross_lingual
cross_lingual_text(is_v3, text) ==
    IF is_v3 /\ \A i \in 1..Len(text) : text[i] # "M"
    THEN <<"P", "M">> \o text
    ELSE text

\* the formatting a mode applies to the one text it formats
prompt_transform(mode, is_v3, text) ==
    IF mode = Instruct THEN instruct_prompt(is_v3, text)
    ELSE IF mode = CrossLingual THEN cross_lingual_text(is_v3, text)
    ELSE zero_shot_prompt(is_v3, text)

\* a mode's formatting applied to a text
format_prompt ==
    /\ call.fn = "prompt_transform" /\ ret = NoCall
    /\ ret' = [text |-> prompt_transform(call.mode, call.is_v3, call.text),
               applications |-> 1]
    /\ UNCHANGED call
    /\ UNCHANGED planVars
    /\ UNCHANGED appVars
    /\ UNCHANGED workerVars
    /\ UNCHANGED apiVars

\* the same formatting applied to its own result, as when a formatted text is
\* stored and used again
format_prompt_again ==
    /\ call.fn = "prompt_transform" /\ ret # NoCall /\ ret.applications = 1
    /\ ret' = [text |-> prompt_transform(call.mode, call.is_v3, ret.text),
               once |-> ret.text,
               applications |-> 2]
    /\ UNCHANGED call
    /\ UNCHANGED planVars
    /\ UNCHANGED appVars
    /\ UNCHANGED workerVars
    /\ UNCHANGED apiVars

\* ---------------------------------------------- core/api.py, the sanitizer
\* the characters of a text handed to clean_text: a letter, a blank, '#', a CJK
\* ideograph and an accented letter
SanitizerChars == {"a", " ", "#", Ideograph, Accented}

\* a call of clean_text, as tts_tavern and tts_api make it (api.py 320, 442)
sanitize ==
    /\ call.fn = "clean_text" /\ ret = NoCall
    /\ ret' = [text |-> clean_text(call.text)]
    /\ UNCHANGED call
    /\ UNCHANGED planVars
    /\ UNCHANGED appVars
    /\ UNCHANGED workerVars
    /\ UNCHANGED apiVars

\* ------------------------------------------- core/worker.py, chunk filenames
\* text[:n]
Slice(text, n) == SubSeq(text, 1, IF Len(text) < n THEN Len(text) ELSE n)

\* worker.py line 219: the characters sanitize_filename removes ('/' stands for
\* all of '<>:"/\|?*')
invalid_chars(c) == c = "/"

\* worker.py line 222: ord(char) < 32
control_char(c) == c \in {"\n", "\t"}

\* str.replace('__', '_'): one pass from the left over non-overlapping matches
RECURSIVE replace_underscores(_)
replace_underscores(t) ==
    IF Len(t) < 2 THEN t
    ELSE IF t[1] = "_" /\ t[2] = "_"
    THEN <<"_">> \o replace_underscores(SubSeq(t, 3, Len(t)))
    ELSE <<t[1]>> \o replace_underscores(Tail(t))

\* worker.py lines 224-225: while '__' in text: text = text.replace('__', '_')
RECURSIVE collapse_underscores(_)
collapse_underscores(t) ==
    IF \E i \in 1..(Len(t) - 1) : t[i] = "_" /\ t[i + 1] = "_"
    THEN collapse_underscores(replace_underscores(t))
    ELSE t

\* str.strip('_')
RECURSIVE strip_underscores(_)
strip_underscores(t) ==
    IF t # <<>> /\ Head(t) = "_" THEN strip_underscores(Tail(t))
    ELSE IF t # <<>> /\ t[Len(t)] = "_"
    THEN strip_underscores(SubSeq(t, 1, Len(t) - 1))
    ELSE t

\* worker.py lines 217-227
sanitize_filename(text) ==
    LET valid == SelectSeq(text, LAMBDA c : ~invalid_chars(c))
        printable == SelectSeq(valid, LAMBDA c : ~control_char(c))
        replaced == [i \in 1..Len(printable) |->
                        IF printable[i] \in {" ", "\n", "\t"} THEN "_"
                        ELSE printable[i]]
        stripped == strip_underscores(collapse_underscores(replaced))
    IN IF stripped = <<>> THEN <<"a", "u", "d", "i", "o">> ELSE stripped

\* worker.py lines 208-215 with the preview written out: the name as a string
generate_filename_str(index, text, sub_index, version) ==
    Str(index) \o <<"_">> \o Str(version) \o <<"_">>
        \o sanitize_filename(Slice(text, 10))
        \o <<"_">> \o Str(sub_index + 1) \o <<".", "w", "a", "v">>

\* the texts of the segments named: every text of at most MaxName characters out
\* of a letter, a blank, '/' and '_', and the text "Hello World"
HelloWorld == <<"H", "e", "l", "l", "o", " ", "W", "o", "r", "l", "d">>
NameTexts == StringsUpTo({"a", " ", "/", "_"}, MaxName) \cup {HelloWorld}

\* worker.py lines 83-85: the name of the chunk sub_index of a segment that has
\* run_count versions
name_chunk ==
    /\ call.fn = "generate_filename" /\ ret = NoCall
    /\ ret' = [filename |-> generate_filename_str(call.index, call.text,
                                call.sub_index, call.run_count + 1)]
    /\ UNCHANGED call
    /\ UNCHANGED planVars
    /\ UNCHANGED appVars
    /\ UNCHANGED workerVars
    /\ UNCHANGED apiVars

\* ------------------------------------------ core/utils.py, merge_audio_files
\* what the steps of one merge meet: the probe of the transcoder ("ok", "missing":
\* FileNotFoundError, "error": CalledProcessError), the writing of the manifest
\* ("ok", "open_raises", "write_raises"), the transcoder's run ("zero",
\* "nonzero", "raises") and the removal of the manifest ("ok", "raises")
MergeOutcomes ==
    [probe : {"ok", "missing", "error"},
     write : {"ok", "open_raises", "write_raises"},
     run : {"zero", "nonzero", "raises"},
     remove : {"ok", "raises"}]

\* utils.py lines 141-183: what merge_audio_files returns ("None" or the output
\* path) and whether filelist_temp.txt is in the output directory afterwards
merge_audio_files(audio_files, outcome) ==
    IF outcome.probe # "ok"
    THEN [result |-> "None", manifest |-> FALSE]
    ELSE IF outcome.write = "open_raises"
    THEN [result |-> "None", manifest |-> FALSE]
    ELSE IF outcome.write = "write_raises"
    THEN [result |-> "None", manifest |-> TRUE]
    ELSE IF outcome.run = "raises"
    THEN [result |-> "None", manifest |-> TRUE]
    ELSE [result |-> IF outcome.run = "zero" THEN "output_path" ELSE "None",
          manifest |-> outcome.remove = "raises"]

\* main_window.py lines 537-541: the merge of a list of files that is not empty
merge_call ==
    /\ call.fn = "merge_audio_files" /\ ret = NoCall
    /\ ret' = merge_audio_files(call.audio_files, call.outcome)
    /\ UNCHANGED call
    /\ UNCHANGED planVars
    /\ UNCHANGED appVars
    /\ UNCHANGED workerVars
    /\ UNCHANGED apiVars

\* ------------------------------------------ core/api.py, speed of the audio
\* a Python float: not-a-number, or a number counted in tenths
Float(tenths) == [nan |-> FALSE, tenths |-> tenths]
NaN == [nan |-> TRUE, tenths |-> 0]

\* a < b and a != b on floats: every comparison with not-a-number is false, but
\* for != which is true
float_lt(a, b) == ~a.nan /\ ~b.nan /\ a.tenths < b.tenths
float_ne(a, b) == a.nan \/ b.nan \/ a.tenths # b.tenths

\* max(0.5, min(2.0, speed)) for a speed that is a number
clamp(speed) ==
    LET least == IF float_lt(speed, Float(20)) THEN speed ELSE Float(20)
    IN IF float_lt(Float(5), least) THEN least ELSE Float(5)

\* api.py lines 176-194 with run_ffmpeg, lines 150-171: the ratio handed to the
\* transcoder and whether it succeeded; the transcoder refuses a ratio that is
\* not a number
speed_change_ffmpeg(speed, transcoder) ==
    LET ratio == IF float_lt(speed, Float(5)) \/ float_lt(Float(20), speed)
                 THEN clamp(speed)
                 ELSE speed
    IN [ratio |-> ratio, ok |-> transcoder = "ok" /\ ~ratio.nan]

\* api.py lines 747-767: the ratios the transcoder was invoked with, in order,
\* and the audio that goes into the response
change_speed(speed, transcoder) ==
    IF float_ne(speed, Float(10))
    THEN LET changed == speed_change_ffmpeg(speed, transcoder)
         IN [ratios |-> <<changed.ratio>>,
             audio |-> IF changed.ok THEN "changed" ELSE "original"]
    ELSE [ratios |-> <<>>, audio |-> "original"]

\* the speeds requested: numbers below, within and above the range, infinity
\* (written as 1000.0) and not-a-number, which float() accepts
Speeds ==
    {Float(t) : t \in {0 - 1000, 0 - 10, 0, 3, 5, 7, 10, 12, 15, 20, 21, 30, 1000}}
        \cup {NaN}

\* the part of _inference that follows the model's calls
speed_stage ==
    /\ call.fn = "change_speed" /\ ret = NoCall
    /\ ret' = change_speed(call.speed, call.transcoder)
    /\ UNCHANGED call
    /\ UNCHANGED planVars
    /\ UNCHANGED appVars
    /\ UNCHANGED workerVars
    /\ UNCHANGED apiVars

\* ------------------------------------------------- ui/voice_settings.py
\* the names the user types into a profile's name field: one of their own and
\* one that a new profile gets by default
TypedNames == {<<"x">>, default_name(2)}

\* the profile lists of the configuration files the user can load: lists a
\* save_config of this page wrote while the names were all different
ConfigFiles == {<<default_name(1)>>, <<<<"x">>, default_name(1)>>}

\* voice_settings.py lines 110-117
add_config ==
    /\ Len(vs_voice_configs) < MaxProfiles
    /\ vs_voice_configs' =
           Append(vs_voice_configs, default_name(Len(vs_voice_configs) + 1))
    /\ UNCHANGED <<plan_rows, plan_file>>
    /\ UNCHANGED callVars
    /\ UNCHANGED appVars
    /\ UNCHANGED workerVars
    /\ UNCHANGED apiVars

\* voice_settings.py lines 273-286; the context menu of a row gives the row's
\* index or the one below it
insert_config ==
    \E index \in 0..Len(vs_voice_configs) :
        LET config == default_name(Len(vs_voice_configs) + 1)
        IN /\ Len(vs_voice_configs) < MaxProfiles
           /\ vs_voice_configs' =
                  IF 0 <= index /\ index <= Len(vs_voice_configs)
                  THEN Insert(vs_voice_configs, index, config)
                  ELSE Append(vs_voice_configs, config)
           /\ UNCHANGED <<plan_rows, plan_file>>
           /\ UNCHANGED callVars
           /\ UNCHANGED appVars
           /\ UNCHANGED workerVars
           /\ UNCHANGED apiVars

\* voice_settings.py lines 288-294
move_config ==
    \E index \in 0..(Len(vs_voice_configs) - 1), direction \in {0 - 1, 1} :
        LET new_index == index + direction
        IN /\ IF /\ 0 <= index /\ index < Len(vs_voice_configs)
                 /\ 0 <= new_index /\ new_index < Len(vs_voice_configs)
              THEN vs_voice_configs' =
                       [vs_voice_configs EXCEPT
                           ![index + 1] = vs_voice_configs[new_index + 1],
                           ![new_index + 1] = vs_voice_configs[index + 1]]
              ELSE UNCHANGED vs_voice_configs
           /\ UNCHANGED <<plan_rows, plan_file>>
           /\ UNCHANGED callVars
           /\ UNCHANGED appVars
           /\ UNCHANGED workerVars
           /\ UNCHANGED apiVars

\* voice_settings.py lines 296-300
delete_config ==
    \E index \in 0..(Len(vs_voice_configs) - 1) :
        /\ 0 <= index /\ index < Len(vs_voice_configs)
        /\ vs_voice_configs' = Pop(vs_voice_configs, index)
        /\ UNCHANGED <<plan_rows, plan_file>>
        /\ UNCHANGED callVars
        /\ UNCHANGED appVars
        /\ UNCHANGED workerVars
        /\ UNCHANGED apiVars

\* voice_settings.py lines 236-238
update_config_name ==
    \E index \in 0..(Len(vs_voice_configs) - 1), name \in TypedNames :
        /\ 0 <= index /\ index < Len(vs_voice_configs)
        /\ vs_voice_configs' = [vs_voice_configs EXCEPT ![index + 1] = name]
        /\ UNCHANGED <<plan_rows, plan_file>>
        /\ UNCHANGED callVars
        /\ UNCHANGED appVars
        /\ UNCHANGED workerVars
        /\ UNCHANGED apiVars

\* voice_settings.py lines 338-351: the list becomes the file's
load_config ==
    \E config_data \in ConfigFiles :
        /\ vs_voice_configs' = config_data
        /\ UNCHANGED <<plan_rows, plan_file>>
        /\ UNCHANGED callVars
        /\ UNCHANGED appVars
        /\ UNCHANGED workerVars
        /\ UNCHANGED apiVars

\* voice_settings.py lines 403-404: the profiles a lookup by name finds
get_voice_configs(name) ==
    {i \in 1..Len(vs_voice_configs) : vs_voice_configs[i] = name}

\* ------------------------------ core/worker.py, a run over a row of the plan
\* worker.py lines 78-90: the paths of the chunks a run writes for a segment, in
\* the one output directory of the project. The texts of the plan editor are
\* shorter than ten plain characters, so each is its own preview.
segment_files_of(segment, chunks) ==
    [c \in 1..chunks |->
        generate_filename_str(segment.index, <<segment.text>>, c - 1,
                              segment.run_count + 1)]

\* main_window.py lines 400-404 with worker.py lines 30-106 taken as a whole:
\* a run of one row of the plan from its start to its end, with nothing else in
\* between; the model yields chunks results
generate_row ==
    \E index \in 0..(Len(plan_rows) - 1), chunks \in 1..MaxChunks :
        LET segment == plan_rows[index + 1]
        IN /\ segment.promptAudio
           /\ segment.run_count < MaxRuns
           /\ plan_rows' = [plan_rows EXCEPT ![index + 1] =
                               add_version(segment,
                                           segment_files_of(segment, chunks))]
           /\ UNCHANGED <<plan_file, vs_voice_configs>>
           /\ UNCHANGED callVars
           /\ UNCHANGED appVars
           /\ UNCHANGED workerVars
           /\ UNCHANGED apiVars

\* ------------------------------------------------------- specification
Next ==
    \/ run_begin
    \/ run_load_model_ok
    \/ run_load_model_raise
    \/ run_next_segment
    \/ run_skip_segment
    \/ run_loop_exit
    \/ run_request_chunk
    \/ run_chunk_yield
    \/ run_chunk_save
    \/ run_chunk_cancelled
    \/ run_chunk_exhausted
    \/ run_chunk_raise
    \/ stop
    \/ on_audio_combo_changed
    \/ run_single_segment
    \/ run_all_segments
    \/ on_generation_finished
    \/ merge_all_audio
    \/ on_load_model_clicked
    \/ ModelLoaderThread_run_success
    \/ ModelLoaderThread_run_error
    \/ on_model_loaded_success
    \/ on_unload_model_clicked
    \/ ModelUnloaderThread_run
    \/ toggle_server
    \/ on_auto_load_model_success
    \/ on_auto_load_model_error
    \/ APIServerThread_run
    \/ APIServerThread_run_error
    \/ APIServerThread_serve_exit
    \/ APIServerThread_run_finally
    \/ on_server_started
    \/ on_server_stopped
    \/ on_server_error
    \/ inference_call
    \/ inference_return
    \/ tts_tavern
    \/ tts_api
    \/ run_dispatch
    \/ inference_dispatch
    \/ format_instruct
    \/ load_segments
    \/ add_segment
    \/ delete_segments
    \/ move_segment
    \/ on_voice_changed
    \/ on_item_changed
    \/ on_mode_changed
    \/ on_instruct_changed
    \/ on_seed_changed
    \/ save_plan
    \/ load_plan
    \/ segment_text
    \/ format_prompt
    \/ format_prompt_again
    \/ sanitize
    \/ name_chunk
    \/ merge_call
    \/ speed_stage
    \/ add_config
    \/ insert_config
    \/ move_config
    \/ delete_config
    \/ update_config_name
    \/ load_config
    \/ generate_row
    \/ quick_run

\* the whole program
Spec == Init /\ [][Next]_vars

\* the thread of the generation worker
NextWorker ==
    \/ run_begin
    \/ run_load_model_ok
    \/ run_load_model_raise
    \/ run_next_segment
    \/ run_skip_segment
    \/ run_loop_exit
    \/ run_request_chunk
    \/ run_chunk_yield
    \/ run_chunk_save
    \/ run_chunk_cancelled
    \/ run_chunk_exhausted
    \/ run_chunk_raise

\* generation: the worker thread, the plan's segments and the GUI handlers that
\* start, stop and follow a run; models are loaded by the worker itself
NextGen ==
    \/ NextWorker
    \/ stop
    \/ on_audio_combo_changed
    \/ run_single_segment
    \/ run_all_segments
    \/ on_generation_finished

SpecGen == Init /\ [][NextGen]_vars

\* the application around a plan of one segment
AppInit(plan) ==
    /\ \E f \in [SegIds -> BOOLEAN] :
        /\ \A s \in SegIds : (\A k \in 1..Len(plan) : plan[k] # s) => f[s]
        /\ segs = [s \in SegIds |-> TaskSegment(s, f[s])]
    /\ task_segments = plan
    /\ wpc = "none"
    /\ w_segments = <<>>
    /\ w_cosyvoice = None
    /\ w_is_running = FALSE
    /\ w_i = 1
    /\ w_files = <<>>
    /\ w_all = <<>>
    /\ events = <<>>
    /\ runs = 0
    /\ cosyvoice_model = None
    /\ modelState = [m \in ModelIds |-> "absent"]
    /\ guiQueue = <<>>
    /\ infoBar = ""
    /\ srvPc = "none"
    /\ srv_model = None
    /\ srv_starts = 0
    /\ srv_socket = FALSE
    /\ start_btn = TRUE
    /\ api_cosyvoice = None
    /\ reqPc = "idle"

InitPlan(plan) ==
    /\ AppInit(plan)
    /\ call = NoCall
    /\ ret = NoCall
    /\ PlanInit

InitApp == InitPlan(<<1>>)

\* model load and unload: the main window's handlers, the loader and unloader
\* threads, the API page's auto-load, and generation runs over a plan of one segment
NextModel ==
    \/ NextWorker
    \/ stop
    \/ run_all_segments
    \/ on_generation_finished
    \/ on_load_model_clicked
    \/ ModelLoaderThread_run_success
    \/ ModelLoaderThread_run_error
    \/ on_model_loaded_success
    \/ on_unload_model_clicked
    \/ ModelUnloaderThread_run
    \/ toggle_server
    \/ on_auto_load_model_success
    \/ on_auto_load_model_error
    \/ APIServerThread_run
    \/ APIServerThread_run_error
    \/ APIServerThread_serve_exit
    \/ APIServerThread_run_finally
    \/ on_server_started
    \/ on_server_stopped
    \/ on_server_error

SpecModel == InitApp /\ [][NextModel]_vars

\* the API server page and its HTTP requests beside generation runs over a plan of
\* one segment; the model comes from the page's auto-load or from the worker
NextApi ==
    \/ NextWorker
    \/ stop
    \/ run_all_segments
    \/ on_generation_finished
    \/ ModelLoaderThread_run_success
    \/ ModelLoaderThread_run_error
    \/ toggle_server
    \/ on_auto_load_model_success
    \/ on_auto_load_model_error
    \/ APIServerThread_run
    \/ APIServerThread_run_error
    \/ APIServerThread_serve_exit
    \/ APIServerThread_run_finally
    \/ on_server_started
    \/ on_server_stopped
    \/ on_server_error
    \/ inference_call
    \/ inference_return

SpecApi == InitApp /\ [][NextApi]_vars

\* generation runs, selections and merges
NextMerge ==
    \/ NextGen
    \/ merge_all_audio

SpecMerge == Init /\ [][NextMerge]_vars

\* api.py line 237: the default of the configured minimum text length
min_text_length == 5

\* the POST requests: the model handle the route finds, the JSON body's text,
\* profile name and mode, whether float(speed) succeeds, the configured minimum
\* length and what the model call would do
HttpRequests ==
    {[fn |-> f, data |-> d] :
        f \in {"tts_tavern", "tts_api"},
        d \in [cosyvoice : {None, 1},
               text : StringsUpTo(TextChars, MaxText),
               name : {<<>>, <<" ">>, <<"A">>, <<" ", "A">>, <<"B">>, <<"Z">>},
               mode : {"None", "instruction", Repair},
               speed_ok : BOOLEAN,
               min_text_length : {MaxText - 1, min_text_length},
               outcome : {"ok", "empty", "raise"}]}

\* one POST request to one of the two TTS routes
InitHttp ==
    /\ AppInit(<<1>>)
    /\ call \in HttpRequests
    /\ ret = NoCall
    /\ PlanInit

NextHttp ==
    \/ tts_tavern
    \/ tts_api

SpecHttp == InitHttp /\ [][NextHttp]_vars

\* the dispatches: the path taken, a profile, the mode given with the call
\* ("None": none given) and what the model call would do
Dispatches ==
    {[fn |-> f, voice_config |-> VoiceConfig(pm, pt, pa, it), mode |-> m, outcome |-> o] :
        f \in {"run", "_inference"},
        pm \in {ZeroShot, CrossLingual, Instruct, Repair},
        pt \in {"", "t"},
        pa \in {"", "gone.wav", "ref.wav"},
        it \in {"", "i"},
        m \in {"None", ZeroShot, CrossLingual, Instruct, Repair, "zero-shot"},
        o \in {"ok", "empty", "raise"}}

\* one dispatch of one segment or request
InitDispatch ==
    /\ AppInit(<<1>>)
    /\ call \in Dispatches
    /\ ret = NoCall
    /\ PlanInit

NextDispatch ==
    \/ run_dispatch
    \/ inference_dispatch

SpecDispatch == InitDispatch /\ [][NextDispatch]_vars

\* one instruction text formatted for a model of either generation
InitPrompt ==
    /\ AppInit(<<1>>)
    /\ call \in {[fn |-> "instruct_prompt", is_v3 |-> v, instruct_text |-> t] :
                    v \in BOOLEAN, t \in StringsUpTo(PromptTokens, MaxPrompt)}
    /\ ret = NoCall
    /\ PlanInit

NextPrompt ==
    \/ format_instruct

SpecPrompt == InitPrompt /\ [][NextPrompt]_vars

\* TaskSegment objects under any sequence of add_version and set_audio calls
NextSegment ==
    \/ TaskSegment_add_version
    \/ on_audio_combo_changed

SpecSegment == Init /\ [][NextSegment]_vars

\* the plan editor: the handlers that change the rows, and load_plan
NextPlanEdit ==
    \/ load_segments
    \/ add_segment
    \/ delete_segments
    \/ move_segment
    \/ on_voice_changed
    \/ on_item_changed
    \/ on_mode_changed
    \/ on_instruct_changed
    \/ on_seed_changed
    \/ load_plan

SpecPlanEdit == InitApp /\ [][NextPlanEdit]_vars

\* a row as the handlers of the plan editor can leave it: any text, profile, mode,
\* instruction and seed, generated or not
EditedRow(i, c) ==
    LET fresh == TaskSegment_init(i, c.text, VoiceProfiles[c.cfg], c.mode,
                                  c.instruct_text, c.seed)
        edited == [fresh EXCEPT !.instruct_text = c.instruct_text]
    IN IF c.generated THEN add_version(edited, <<1>>) ELSE edited

\* plan persistence: a plan the editor holds is saved and loaded
InitPersist ==
    /\ AppInit(<<1>>)
    /\ call = NoCall /\ ret = NoCall
    /\ plan_file = NoFile
    /\ vs_voice_configs = <<default_name(1)>>
    /\ \E n \in 0..MaxSaved :
         \E c \in [1..n -> [text : PlanTexts, cfg : 1..Len(VoiceProfiles),
                             mode : PlanModes, instruct_text : PlanInstructs,
                             seed : PlanSeeds, generated : BOOLEAN]] :
            plan_rows = [i \in 1..n |-> EditedRow(i, c[i])]

NextPersist ==
    \/ save_plan
    \/ load_plan

SpecPersist == InitPersist /\ [][NextPersist]_vars

\* the segmenter on every document of at most MaxDoc characters
InitSegmenter ==
    /\ AppInit(<<1>>)
    /\ call \in {[fn |-> "get_text_segments", voice_configs |-> v, doc |-> d] :
                    v \in ProfileSets, d \in Docs}
    /\ ret = NoCall
    /\ PlanInit

NextSegmenter ==
    \/ segment_text

SpecSegmenter == InitSegmenter /\ [][NextSegmenter]_vars

\* prompt formatting on every text of at most MaxPrompt tokens, in every mode
InitFormat ==
    /\ AppInit(<<1>>)
    /\ call \in {[fn |-> "prompt_transform", mode |-> m, is_v3 |-> v, text |-> t] :
                    m \in {ZeroShot, CrossLingual, Instruct, Repair},
                    v \in BOOLEAN, t \in StringsUpTo(PromptTokens, MaxPrompt)}
    /\ ret = NoCall
    /\ PlanInit

NextFormat ==
    \/ format_prompt
    \/ format_prompt_again

SpecFormat == InitFormat /\ [][NextFormat]_vars

\* the sanitizer on every text of at most MaxText characters
InitSanitizer ==
    /\ AppInit(<<1>>)
    /\ call \in {[fn |-> "clean_text", text |-> t] :
                    t \in StringsUpTo(SanitizerChars, MaxText)}
    /\ ret = NoCall
    /\ PlanInit

NextSanitizer ==
    \/ sanitize

SpecSanitizer == InitSanitizer /\ [][NextSanitizer]_vars

\* chunk names for every segment position, version count, chunk and text
InitName ==
    /\ AppInit(<<1>>)
    /\ call \in {[fn |-> "generate_filename", index |-> i, run_count |-> r,
                  sub_index |-> c, text |-> t] :
                    i \in 1..MaxPlan, r \in 0..MaxRuns, c \in 0..(MaxChunks - 1),
                    t \in NameTexts}
    /\ ret = NoCall
    /\ PlanInit

NextName ==
    \/ name_chunk

SpecName == InitName /\ [][NextName]_vars

\* a merge of one to three files under every outcome of its steps
InitMergeFiles ==
    /\ AppInit(<<1>>)
    /\ call \in {[fn |-> "merge_audio_files", audio_files |-> [i \in 1..n |-> i],
                  outcome |-> o] : n \in 1..3, o \in MergeOutcomes}
    /\ ret = NoCall
    /\ PlanInit

NextMergeFiles ==
    \/ merge_call

SpecMergeFiles == InitMergeFiles /\ [][NextMergeFiles]_vars

\* the speed stage for every speed, with a transcoder that works, fails or is
\* missing
InitSpeed ==
    /\ AppInit(<<1>>)
    /\ call \in {[fn |-> "change_speed", speed |-> s, transcoder |-> t] :
                    s \in Speeds, t \in {"ok", "error", "missing"}}
    /\ ret = NoCall
    /\ PlanInit

NextSpeed ==
    \/ speed_stage

SpecSpeed == InitSpeed /\ [][NextSpeed]_vars

\* the voice settings page: every operation on the profile list
InitProfiles == InitApp

NextProfiles ==
    \/ add_config
    \/ insert_config
    \/ move_config
    \/ delete_config
    \/ update_config_name
    \/ load_config

SpecProfiles == InitProfiles /\ [][NextProfiles]_vars

\* plan edits and generation runs on the rows of the plan editor
InitPlanRuns == InitApp

NextPlanRuns ==
    \/ add_segment
    \/ delete_segments
    \/ move_segment
    \/ generate_row

SpecPlanRuns == InitPlanRuns /\ [][NextPlanRuns]_vars

\* the HTTP bridge beside model load and unload: the main window's load and
\* unload buttons with their threads, the API page's server and its requests
NextBridge ==
    \/ on_load_model_clicked
    \/ ModelLoaderThread_run_success
    \/ ModelLoaderThread_run_error
    \/ on_model_loaded_success
    \/ on_unload_model_clicked
    \/ ModelUnloaderThread_run
    \/ toggle_server
    \/ on_auto_load_model_success
    \/ on_auto_load_model_error
    \/ APIServerThread_run
    \/ APIServerThread_run_error
    \/ APIServerThread_serve_exit
    \/ APIServerThread_run_finally
    \/ on_server_started
    \/ on_server_stopped
    \/ on_server_error
    \/ inference_call
    \/ inference_return

SpecBridge == InitApp /\ [][NextBridge]_vars

\* the three ways to start a generation, stop, and the worker's run, over a plan
\* of one segment and one segment outside the plan
NextStart ==
    \/ NextWorker
    \/ stop
    \/ run_single_segment
    \/ run_all_segments
    \/ quick_run
    \/ on_generation_finished

SpecStart == InitApp /\ [][NextStart]_vars

\* ------------------------------------------------------------ properties
\* the events of a run that belong to one segment
IsSegEvent(e) ==
    \/ e.sig = "segment_finished"
    \/ e.sig = "progress" /\ e.msg \in {"generating", "saved"}
    \/ e.sig = "error" /\ e.msg = "synthesis"

\* the position, in the list the worker was given, of the segment with this index
PosOf(index) == CHOOSE k \in 1..Len(w_segments) : segs[w_segments[k]].index = index

\* events[i] completes the segment at position k: its segment_finished, or the
\* skip message that follows its "generating" message
Completes(i, k) ==
    LET idx == segs[w_segments[k]].index
    IN \/ events[i].sig = "segment_finished" /\ events[i].index = idx
       \/ /\ events[i].msg = "skip" /\ i > 1
          /\ events[i - 1].msg = "generating" /\ events[i - 1].index = idx

Count(sig) == Cardinality({j \in 1..Len(events) : events[j].sig = sig})

\* (version, chunk), both 0-based, names a file of the segment
ValidPair(seg, v, c) ==
    /\ 0 <= v /\ v < Len(seg.versions)
    /\ 0 <= c /\ c < Len(seg.versions[v + 1])

\* C1: a segment whose chunk loop is left because stop() was called keeps the
\* versions and the selected (version, chunk) it had: no partial version is appended.
C1_NoPartialVersion ==
    [][(wpc = "yielded" /\ ~w_is_running /\ wpc' = "loop")
          => /\ segs'[CurSeg].versions = segs[CurSeg].versions
             /\ segs'[CurSeg].current_version = segs[CurSeg].current_version
             /\ segs'[CurSeg].current_segment = segs[CurSeg].current_segment]_vars

\* C2: a run in which the model call of one segment raised, and which was not
\* cancelled, does not end before every segment of its list has been started.
C2_ErrorIsolated ==
    (/\ wpc = "done" /\ w_is_running
     /\ \E j \in 1..Len(events) : events[j].sig = "error" /\ events[j].msg = "synthesis")
        => \A k \in 1..Len(w_segments) :
              \E i \in 1..Len(events) :
                  /\ events[i].msg = "generating"
                  /\ events[i].index = segs[w_segments[k]].index

\* C3: a run of a segment whose generator is exhausted after at least one chunk
\* was written appends exactly its files as the new last version, keeps the earlier
\* versions in place and selects (new version, chunk 0) whatever was selected;
\* no step other than the end of a segment's chunk loop (a set_audio selection
\* included) changes a versions list; version n holds the files written as run n.
C3_RunsAppendVersions ==
    [][\A s \in SegIds :
          /\ (wpc = "infer" /\ wpc' = "loop" /\ CurSeg = s /\ w_files # <<>>)
                => /\ segs'[s].versions = Append(segs[s].versions, w_files)
                   /\ segs'[s].current_version = Len(segs'[s].versions) - 1
                   /\ segs'[s].current_segment = 0
                   /\ segs'[s].run_count = Len(segs'[s].versions)
          /\ segs'[s].versions # segs[s].versions
                => wpc \in {"infer", "yielded"} /\ wpc' = "loop" /\ CurSeg = s
          /\ \A n \in 1..Len(segs'[s].versions) : \A c \in 1..Len(segs'[s].versions[n]) :
                segs'[s].versions[n][c] = <<segs[s].index, n, c>>]_vars

\* C3's case: a second successful run has just ended on a segment, which now has
\* two versions with the second selected at chunk 0
C3_Witness ==
    \E s \in SegIds :
        /\ Len(segs[s].versions) = 2
        /\ segs[s].current_version = 1 /\ segs[s].current_segment = 0
        /\ w_is_running /\ wpc = "loop" /\ events # <<>>
        /\ events[Len(events)].sig = "segment_finished"
        /\ events[Len(events)].index = segs[s].index
        /\ events[Len(events)].files = segs[s].versions[2]

\* C4: once a version exists, (current_version, current_segment) names an existing
\* chunk, which current_audio is; set_audio with a pair that names none returns
\* False and leaves the segment as it was.
C4_SelectionValid ==
    \A s \in SegIds :
        /\ segs[s].versions # <<>>
              => /\ ValidPair(segs[s], segs[s].current_version, segs[s].current_segment)
                 /\ segs[s].current_audio =
                       segs[s].versions[segs[s].current_version + 1][segs[s].current_segment + 1]
        /\ \A version \in -1..(MaxRuns + 2), segment \in -1..(MaxChunks + 2) :
              ~ValidPair(segs[s], version - 1, segment - 1)
                 => set_audio(segs[s], version, segment) = [ok |-> FALSE, seg |-> segs[s]]

\* C4's case: after a two-chunk version and a one-chunk version were added,
\* set_audio has selected the second chunk of the first version
C4_Witness ==
    \E s \in SegIds :
        /\ Len(segs[s].versions) = 2
        /\ Len(segs[s].versions[1]) = 2 /\ Len(segs[s].versions[2]) = 1
        /\ segs[s].current_version = 0 /\ segs[s].current_segment = 1

\* C5: the events of a run that belong to segments appear in the order of the
\* list; a segment is started, a chunk of it written or requested only after every
\* segment before it in the list was completed or skipped.
C5_SequentialInListOrder ==
    /\ \A i, j \in 1..Len(events) :
          (i < j /\ IsSegEvent(events[i]) /\ IsSegEvent(events[j]))
             => PosOf(events[i].index) <= PosOf(events[j].index)
    /\ \A j \in 1..Len(events) :
          (events[j].sig = "progress" /\ events[j].msg \in {"generating", "saved"})
             => \A k \in 1..(PosOf(events[j].index) - 1) :
                   \E i \in 1..(j - 1) : Completes(i, k)
    /\ wpc \in {"call", "infer", "yielded"}
          => \A k \in 1..(w_i - 1) : \E i \in 1..Len(events) : Completes(i, k)

\* C5's case: a run over two segments has written a chunk of each
C5_Witness ==
    /\ Len(w_segments) = 2
    /\ \E i, j \in 1..Len(events) :
          /\ i < j
          /\ events[i].msg = "saved" /\ events[i].index = segs[w_segments[1]].index
          /\ events[j].msg = "saved" /\ events[j].index = segs[w_segments[2]].index

\* C6: every segment the loop of a run has gone past has a segment_finished event
\* carrying its index; for a segment skipped for its missing reference audio the
\* event carries the empty list.
C6_EverySegmentCompleted ==
    \A k \in 1..Len(w_segments) :
        (wpc # "none" /\ k < w_i)
           => \E j \in 1..Len(events) :
                 /\ events[j].sig = "segment_finished"
                 /\ events[j].index = segs[w_segments[k]].index
                 /\ ~segs[w_segments[k]].promptAudio => events[j].files = <<>>

\* C7: a run emits at most one of finished and error, as its last signal;
\* finished exactly when the whole list was gone through with no stop() and no
\* exception; error when an exception escaped; a load failure processes no segment.
C7_OneTerminalEvent ==
    /\ Count("finished") + Count("error") <= 1
    /\ \A j \in 1..Len(events) :
          events[j].sig \in {"finished", "error"} => j = Len(events) /\ wpc = "done"
    /\ Count("finished") = 1 => w_is_running /\ w_i > Len(w_segments)
    /\ (wpc = "done" /\ w_is_running /\ Count("error") = 0)
          => Count("finished") = 1
    /\ (wpc = "done" /\ ~w_is_running) => Count("finished") = 0
    /\ (wpc = "done" /\ w_i <= Len(w_segments) /\ w_is_running) => Count("error") = 1
    /\ \A j \in 1..Len(events) :
          (events[j].sig = "error" /\ events[j].msg = "load")
             => w_i = 1 /\ \A i \in 1..Len(events) : ~IsSegEvent(events[i])

\* C7's case: a run over two segments has ended with finished
C7_Witness ==
    /\ wpc = "done" /\ Len(w_segments) = 2
    /\ events # <<>> /\ events[Len(events)].sig = "finished"
    /\ Len(events[Len(events)].files) >= 2

\* C8: the generation worker and an HTTP request are never both inside a model
\* call on the same model instance.
C8_OneCallInFlight ==
    ~(wpc = "infer" /\ reqPc = "infer" /\ w_cosyvoice = api_cosyvoice)

\* C9: an unload request that arrives while the generation worker is running
\* leaves the model handle as it was, starts no unload and shows a warning.
C9_UnloadRefusedWhileRunning ==
    [][(WorkerIsRunning /\ on_unload_model_clicked)
          => /\ cosyvoice_model' = cosyvoice_model
             /\ modelState' = modelState
             /\ infoBar' \in {"task_running", "no_model"}]_vars

\* C9's case: with a model loaded and the worker running, unload was refused
C9_Witness ==
    /\ infoBar = "task_running"
    /\ WorkerIsRunning
    /\ cosyvoice_model # None
    /\ modelState[cosyvoice_model] = "loaded"

\* C10: at most one model load or unload is in progress at any time.
C10_LoadUnloadExclusive ==
    Cardinality({m \in ModelIds :
        modelState[m] \in {"loading_main", "loading_api", "loading_worker",
                           "unloading"}}) <= 1


\* what the segment at plan position k is to contribute to a merge
Contribution(k) ==
    LET segment == segs[task_segments[k]]
    IN IF segment.versions = <<>> THEN <<>>
       ELSE segment.versions[segment.current_version + 1]

\* the number of files the plan positions before k are to contribute
RECURSIVE Offset(_)
Offset(k) == IF k <= 1 THEN 0 ELSE Offset(k - 1) + Len(Contribution(k - 1))

\* C11: the list handed to the merge holds, for the plan's segments in order, the
\* chunk files of each one's selected version in chunk order, and nothing else;
\* a segment without versions contributes nothing.
C11_MergeSelectedVersions ==
    /\ Len(files_to_merge) = Offset(Len(task_segments) + 1)
    /\ \A k \in 1..Len(task_segments) : \A c \in 1..Len(Contribution(k)) :
          files_to_merge[Offset(k) + c] = Contribution(k)[c]

\* C11's case: the first segment has two versions and its first, of two chunks,
\* is selected; the second has one version; the merge list is those three files
C11_Witness ==
    /\ Len(segs[task_segments[1]].versions) = 2
    /\ segs[task_segments[1]].current_version = 0
    /\ Len(segs[task_segments[2]].versions) = 1
    /\ files_to_merge = <<<<1, 1, 1>>, <<1, 1, 2>>, <<2, 1, 1>>>>


\* the checks of a POST request, in the order the claim gives them
NotLoaded(d) == d.cosyvoice = None
NoText(d) == strip(d.text) = <<>>
NoName(d) == strip(d.name) = <<>>
NoProfile(d) == strip(d.name) \notin DOMAIN characters
TooShort(d) == Len(clean_text(strip(d.text))) < d.min_text_length

\* the status of the first check that fails, 0 if none fails
FirstFailure(d) ==
    IF NotLoaded(d) THEN 500
    ELSE IF NoText(d) THEN 400
    ELSE IF NoName(d) THEN 400
    ELSE IF NoProfile(d) THEN 404
    ELSE IF TooShort(d) THEN 400
    ELSE 0

ModeOf(c) == IF c.mode = "None" THEN c.voice_config.mode ELSE c.mode

\* the profile has a reference audio that exists
HasAudio(c) == c.voice_config.prompt_audio # "" /\ exists(c.voice_config.prompt_audio)

\* the preconditions of the mode of a dispatch hold
Preconditions(c) ==
    /\ HasAudio(c)
    /\ ModeOf(c) \in {ZeroShot, Repair} => c.voice_config.prompt_text # ""
    /\ ModeOf(c) = Instruct => c.voice_config.instruct_text # ""

\* the model call the claim gives each canonical mode
CallOf(mode) ==
    CASE mode \in {ZeroShot, Repair} -> "inference_zero_shot"
      [] mode = CrossLingual -> "inference_cross_lingual"
      [] mode = Instruct -> "inference_instruct2"

\* C13: on either path a ZeroShot or Repair dispatch whose profile has no
\* existing reference audio or an empty prompt text makes no model call.
C13_PreconditionsFailFast ==
    (/\ ret # NoCall
     /\ ModeOf(call) \in {ZeroShot, Repair}
     /\ ~HasAudio(call) \/ call.voice_config.prompt_text = "")
        => ret.model_call = "none" /\ ~ret.audio

\* C14: for each canonical mode and each profile meeting its preconditions the
\* worker and _inference select the same model call, the one of the mode, the mode
\* given with the call overriding the profile's.
C14_SameDispatch ==
    (/\ ret # NoCall
     /\ ModeOf(call) \in {ZeroShot, CrossLingual, Instruct, Repair}
     /\ Preconditions(call))
        => /\ worker_dispatch(call.voice_config, call.mode, call.outcome).model_call
                 = CallOf(ModeOf(call))
           /\ inference(1, call.voice_config, call.mode, call.outcome).model_call
                 = CallOf(ModeOf(call))


Contains(text, token) == \E i \in 1..Len(text) : text[i] = token

C15_DenseIndex ==
    \A i \in 1..Len(plan_rows) : plan_rows[i].index = i

\* C15's case: a row was inserted between two loaded rows, after the seed of the
\* first was edited
C15_Witness ==
    /\ Len(plan_rows) = MaxPlan
    /\ plan_rows[1].voice_config = VoiceProfiles[2]
    /\ plan_rows[2].text = Placeholder
    /\ plan_rows[3].voice_config = VoiceProfiles[2]
    /\ plan_rows[1].seed = 7 /\ plan_rows[3].seed = default_seed

\* the fields of a row that a plan file keeps
Persisted(segment) ==
    [text |-> segment.text, voice_config |-> segment.voice_config,
     mode |-> segment.mode, instruct_text |-> segment.instruct_text,
     seed |-> segment.seed]

\* C16: save_plan writes every row's text, profile, mode, instruction and seed, and
\* load_plan of the file written gives as many rows, in the same order, with the
\* same text, profile, mode, instruction and seed, each with no versions
C16_RoundTrip ==
    [][/\ (plan_file' # plan_file)
            => /\ Len(plan_file'.segments) = Len(plan_rows)
               /\ \A i \in 1..Len(plan_rows) :
                    [plan_file'.segments[i] EXCEPT !.voice_config = from_dict(@)]
                        = Persisted(plan_rows[i])
       /\ (plan_file.written /\ load_plan_from(plan_file))
            => /\ Len(plan_rows') = Len(plan_file.segments)
               /\ \A i \in 1..Len(plan_rows') :
                    /\ Persisted(plan_rows'[i])
                         = [plan_file.segments[i] EXCEPT
                                !.voice_config = from_dict(@)]
                    /\ plan_rows'[i].versions = <<>>]_vars

\* the segmenter has returned
Segmented == ret # NoCall /\ call.fn = "get_text_segments"

\* the profile the character at position p of the document resolves to
ProfileAt(p) == char_config_of(call.voice_configs, call.doc[p].config_name)

\* the run is the stretch of the document that starts at position p: the same
\* characters, all of the run's profile
OccursAt(run, p) ==
    /\ p + Len(run[1]) - 1 <= Len(call.doc)
    /\ \A j \in 1..Len(run[1]) :
        /\ call.doc[p + j - 1].char = run[1][j]
        /\ ProfileAt(p + j - 1) = run[2]

\* C17: every run emitted is non-empty, holds no newline, starts and ends with a
\* character that is not whitespace, and is a stretch of the document whose
\* characters all resolve to the run's profile
C17_RunsHomogeneous ==
    Segmented =>
        \A k \in 1..Len(ret.segments) :
            LET run == ret.segments[k]
            IN /\ run[1] # <<>>
               /\ \A j \in 1..Len(run[1]) : run[1][j] # "\n"
               /\ ~IsSpace(run[1][1]) /\ ~IsSpace(run[1][Len(run[1])])
               /\ \E p \in 1..Len(call.doc) : OccursAt(run, p)

\* C17's case: the profile changes within a line and a newline follows
C17_Witness ==
    /\ Segmented
    /\ toPlainText(call.doc) = <<"a", "b", "\n", "a">>
    /\ call.doc[1].config_name = "A" /\ call.doc[2].config_name = "B"
    /\ call.doc[4].config_name = "B"
    /\ ret.segments = << <<(<<"a">>), VoiceProfiles[1]>>,
                         <<(<<"b">>), VoiceProfiles[2]>>,
                         <<(<<"a">>), VoiceProfiles[2]>> >>

\* the characters of the document from position p on that are not skipped are
\* all whitespace
RestBlank(p) == \A q \in p..Len(call.doc) : IsSpace(call.doc[q].char)

\* the runs from the k-th on are stretches of the document at or after position
\* p, in order, each within one line and of one profile, with nothing but
\* whitespace outside them
RECURSIVE Covers(_, _)
Covers(k, p) ==
    IF k > Len(ret.segments)
    THEN RestBlank(p)
    ELSE \E s \in p..Len(call.doc) :
            /\ \A q \in p..(s - 1) : IsSpace(call.doc[q].char)
            /\ OccursAt(ret.segments[k], s)
            /\ \A j \in 1..Len(ret.segments[k][1]) : ret.segments[k][1][j] # "\n"
            /\ Covers(k + 1, s + Len(ret.segments[k][1]))

\* C18: with a profile defined the runs are stretches of the document in its
\* order that hold every character that is not whitespace exactly once, and two
\* runs of one profile that a newline or another profile parts stay two runs; with
\* no profile defined, or a document that is empty or all whitespace, there is
\* no run
C18_OrderAndContent ==
    Segmented =>
        IF call.voice_configs = <<>> \/ strip(toPlainText(call.doc)) = <<>>
        THEN ret.segments = <<>>
        ELSE Covers(1, 1)

\* C18's case: two runs of one profile with a blank of another profile between
\* them, and a newline at the end
C18_Witness ==
    /\ Segmented
    /\ call.voice_configs = VoiceProfiles
    /\ toPlainText(call.doc) = <<"a", " ", "b", "\n">>
    /\ call.doc[1].config_name = "A" /\ call.doc[2].config_name = "B"
    /\ call.doc[3].config_name = "A"
    /\ ret.segments = << <<(<<"a">>), VoiceProfiles[1]>>,
                         <<(<<"b">>), VoiceProfiles[1]>> >>

\* one profile is defined and every character of the document resolves to it
SingleProfile ==
    /\ call.voice_configs # <<>>
    /\ \A p \in 1..Len(call.doc) : ProfileAt(p) = ProfileAt(1)

\* C19 as stated: a document with one profile throughout gives exactly one run,
\* the trimmed document
C19_SingleProfileOneRun ==
    (Segmented /\ SingleProfile)
        => /\ Len(ret.segments) = 1
           /\ ret.segments[1][1] = strip(toPlainText(call.doc))

\* C19 for one line: a document with one profile throughout, no newline within
\* its trimmed text and a character that is not whitespace gives exactly one run,
\* the trimmed document; a document that is empty or all whitespace gives none
C19_SingleProfileOneLine ==
    (Segmented /\ SingleProfile)
        => LET trimmed == strip(toPlainText(call.doc))
           IN /\ trimmed = <<>> => ret.segments = <<>>
              /\ (trimmed # <<>> /\ \A j \in 1..Len(trimmed) : trimmed[j] # "\n")
                    => /\ Len(ret.segments) = 1
                       /\ ret.segments[1][1] = trimmed
                       /\ ret.segments[1][2] = ProfileAt(1)

\* C19's case: a line with blanks around and within it, one profile throughout
C19_Witness ==
    /\ Segmented /\ SingleProfile
    /\ toPlainText(call.doc) = <<" ", "a", " ", "b">>
    /\ ret.segments = << <<(<<"a", " ", "b">>), ProfileAt(1)>> >>

\* C21: each mode's prompt formatting applied twice gives what it gives applied
\* once
C21_FormatIdempotent ==
    (ret # NoCall /\ call.fn = "prompt_transform" /\ ret.applications = 2)
        => ret.text = ret.once

\* C21's case: a reference transcript without the marker was formatted twice for
\* a model of the newer generation
C21_Witness ==
    /\ ret # NoCall /\ call.fn = "prompt_transform" /\ ret.applications = 2
    /\ call.mode = ZeroShot /\ call.is_v3
    /\ call.text = <<"x">>
    /\ ret.text = <<"P", "M", "x">>

\* C22: every character of the sanitized text is on the list, and the sanitized
\* text holds the listed characters of the input in their order, blanks apart
C22_OnlyAllowlisted ==
    (ret # NoCall /\ call.fn = "clean_text")
        => /\ \A i \in 1..Len(ret.text) : allowed_chars(ret.text[i])
           /\ SelectSeq(ret.text, LAMBDA c : c # " ")
                = SelectSeq(call.text, LAMBDA c : allowed_chars(c) /\ c # " ")

\* C23: a chunk's name is index_version_preview_chunk.wav, the version one more
\* than the versions the segment has, the chunk counted from 1, the preview the
\* first 10 characters of the text without the characters a filename may not
\* hold; segment 3, version 2, text "Hello World", chunk 0 give
\* 3_2_HelloWorld_1.wav
C23_FilenameFormat ==
    (ret # NoCall /\ call.fn = "generate_filename")
        => /\ ret.filename =
                Str(call.index) \o <<"_">> \o Str(call.run_count + 1) \o <<"_">>
                    \o SelectSeq(Slice(call.text, 10), LAMBDA c : c # "/")
                    \o <<"_">> \o Str(call.sub_index + 1) \o <<".", "w", "a", "v">>
           /\ (call.index = 3 /\ call.run_count = 1 /\ call.sub_index = 0
                    /\ call.text = HelloWorld)
                => ret.filename = <<"3", "_", "2", "_", "H", "e", "l", "l", "o", "W",
                                    "o", "r", "l", "d", "_", "1", ".", "w", "a", "v">>

\* C24: once the manifest is written, no manifest is left when the merge returns,
\* whether the transcoder succeeds, exits non-zero or raises; a missing
\* transcoder gives a failure and no manifest
C24_ManifestRemoved ==
    (ret # NoCall /\ call.fn = "merge_audio_files")
        => /\ (call.outcome.probe = "ok" /\ call.outcome.write = "ok"
                    /\ call.outcome.remove = "ok")
                => ~ret.manifest
           /\ call.outcome.probe = "missing"
                => (ret.result = "None" /\ ~ret.manifest)

\* the stopped signals waiting in a queue
StoppedIn(queue) ==
    Cardinality({i \in 1..Len(queue) : queue[i][1] = "server_stopped"})

C26_SpeedHandling ==
    (ret # NoCall /\ call.fn = "change_speed")
        => /\ call.speed = Float(10) => ret.ratios = <<>>
           /\ call.speed # Float(10)
                => /\ Len(ret.ratios) = 1
                   /\ ~ret.ratios[1].nan
                   /\ 5 <= ret.ratios[1].tenths /\ ret.ratios[1].tenths <= 20
           /\ ret.audio \in {"changed", "original"}
           /\ call.transcoder # "ok" => ret.audio = "original"
\* C27: in every state the add, insert, delete, move, rename and load operations
\* reach, the names of the profile list are all different: a lookup by name
\* finds at most one profile.
C27_NamesUnique ==
    \A name \in {vs_voice_configs[i] : i \in 1..Len(vs_voice_configs)} :
        Cardinality(get_voice_configs(name)) <= 1
\* the versions of the plan: (row, version) pairs
PlanVersions ==
    {rv \in (1..Len(plan_rows)) \X (1..MaxRuns) :
        rv[2] <= Len(plan_rows[rv[1]].versions)}

\* the paths a version records
PathsOf(rv) ==
    {plan_rows[rv[1]].versions[rv[2]][c] :
        c \in 1..Len(plan_rows[rv[1]].versions[rv[2]])}

\* C28: after any inserts, deletes, moves and generation runs, no path is
\* recorded in two versions of the plan: a run never writes a chunk to a path
\* that a version of some segment already references.
C28_NoPathInTwoVersions ==
    \A a \in PlanVersions, b \in PlanVersions :
        a # b => PathsOf(a) \cap PathsOf(b) = {}
\* C29: whenever a request of the HTTP bridge is inside a model call, the handle
\* it calls is a loaded model: not one that was unloaded or is being unloaded.
C29_BridgeCallsLoadedModel ==
    reqPc = "infer"
        => /\ api_cosyvoice # None
           /\ modelState[api_cosyvoice] = "loaded"
\* C30: a worker is made only while none is running; a run-single, run-all or
\* quick-run request that arrives while the worker is running makes no worker,
\* leaves the worker, its segment list and every segment's versions as they were.
C30_OneWorker ==
    [][/\ (runs' # runs) => ~WorkerIsRunning
       /\ (WorkerIsRunning
             /\ (run_single_segment \/ run_all_segments \/ quick_run))
            => /\ UNCHANGED workerVars
               /\ segs' = segs]_vars

\* C30's case: a start request was refused while the worker was running
C30_Witness ==
    /\ infoBar = "already_running"
    /\ WorkerIsRunning
    /\ runs = 1

====
